---- MODULE Spec2Model ----
(***************************************************************************)
(* A model of the Zisk language engine of src/zisk_repl.py: the Evaluator  *)
(* (ZiskREPL.execute / evaluate), the Type System checks it consults, the  *)
(* constant-folding optimizer pre-pass and the parser's declaration-scope  *)
(* bookkeeping.                                                            *)
(*                                                                         *)
(* One state of the model is the state of one ZiskREPL instance between    *)
(* two calls of evaluate.  The action Evaluate is one whole call of        *)
(* evaluate(code, optimize): parse, optional optimize, execute, and the    *)
(* except clauses of evaluate.  execute is a recursive tree walk in the    *)
(* source and is a recursive operator here; a Python exception (the        *)
(* control-transfer signals ReturnException / BreakException /             *)
(* ContinueException included) is a result of kind "raise" that every      *)
(* operator passes on unless the source has a try statement there.         *)
(***************************************************************************)
EXTENDS Integers, Sequences, FiniteSets, TLC

\* ------------------------------------------------------------------------
\* Bounds of the model (not program constants)
\* ------------------------------------------------------------------------
\* number of evaluate calls made on one ZiskREPL instance
MaxCalls == 2
\* largest N of the counting loop `para (var i = 0; i < N; ...)` and largest
\* dividend of the division programs
MaxN == 3
\* number of iterations of every loop of the nested-loop programs
Iterations == 2
\* largest index that a program writes into a list
MaxIndex == 3
\* class declarations on one interpreter, where class hierarchies are built
MaxDecls == 3

\* ------------------------------------------------------------------------
\* Python values
\* ------------------------------------------------------------------------
\* None in a slot that holds an AST node (val_node, sino_node, catch_b, ...)
None == <<>>
\* None in a slot that holds a name or a type name (alias, tipo, err_var_name)
NoName == ""

PyNone == [py |-> "NoneType"]
PyInt(n) == [py |-> "int", v |-> n]
PyBool(b) == [py |-> "bool", v |-> b]
PyStr(s) == [py |-> "str", v |-> s]
\* a float is kept as the exact fraction num/den, den > 0, in lowest terms
PyFloatRaw(n, d) == [py |-> "float", num |-> n, den |-> d]
\* the tuple (value, {'is_const': .., 'type': ..}) of a scope entry, as a value
PyTuple(items) == [py |-> "tuple", items |-> items]
PyList(items) == [py |-> "list", items |-> items]
\* the wrapper closure built by execute (FUNCION)
PyFunc(name, params, ret, body) ==
    [py |-> "function", name |-> name, params |-> params, ret |-> ret, body |-> body]
\* the Python class that execute (CLASE) built for a Zisk class, and an
\* instance of it
PyClass(cls) == [py |-> "type", cls |-> cls]
PyInstance(cls) == [py |-> "instance", cls |-> cls]
\* A list, a dictionary, a class and an instance are objects with an identity:
\* the value is the address of the object in the heap of the state.
PyListAt(at) == [py |-> "list", at |-> at]
PyDictAt(at) == [py |-> "dict", at |-> at]
PyClassAt(cls, at) == [py |-> "type", cls |-> cls, at |-> at]
PyObject(cls, at) == [py |-> "instance", cls |-> cls, at |-> at]
\* the wrapper closure built by execute (CLASE) for a method, inside
\* staticmethod(...) when static, and the bound method getattr makes of it
PyMethod(name, params, ret, body, static) ==
    [py |-> "function", name |-> name, params |-> params, ret |-> ret, body |-> body,
     static |-> static]
PyBound(func, self) == [py |-> "method", func |-> func, self |-> self]
\* the ZiskREPL object of an imported module, kept in self.modules under name
PyModule(name) == [py |-> "ZiskREPL", name |-> name]
\* an exception object: cls is its Python class, msg a tag for its message,
\* value the carried value of a ReturnException
PyExc(cls, msg) == [py |-> "exception", cls |-> cls, msg |-> msg, value |-> PyNone]
ReturnException(v) ==
    [py |-> "exception", cls |-> "ReturnException", msg |-> "return", value |-> v]
BreakException == PyExc("BreakException", "break")
ContinueException == PyExc("ContinueException", "continue")
ZiskError(msg) == PyExc("ZiskError", msg)
ZiskTypeError(msg) == PyExc("ZiskTypeError", msg)
ZiskRuntimeError(msg) == PyExc("ZiskRuntimeError", msg)
ZiskAttributeError(msg) == PyExc("ZiskAttributeError", msg)
ZiskIndexError(msg) == PyExc("ZiskIndexError", msg)
ZiskKeyError(msg) == PyExc("ZiskKeyError", msg)

\* the subclasses of ZiskError (src lines 7-15 and 2962-2966)
ZiskErrorClasses ==
    {"ZiskError", "ZiskTypeError", "ZiskRuntimeError", "ZiskAttributeError",
     "ZiskIndexError", "ZiskKeyError"}
ZiskRuntimeErrorClasses ==
    {"ZiskRuntimeError", "ZiskAttributeError", "ZiskIndexError", "ZiskKeyError"}
ControlClasses == {"ReturnException", "BreakException", "ContinueException"}

IsZiskError(e) == e.cls \in ZiskErrorClasses

\* results of an operator that models Python code which may raise
Ok(st, v) == [st |-> st, k |-> "ok", v |-> v]
Raise(st, e) == [st |-> st, k |-> "raise", v |-> e]

\* `name = value` followed by the statements Body that read the name: the
\* value is computed once, when Body first reads it
Let(value, Body(_)) == Body(value)

\* ------------------------------------------------------------------------
\* Python arithmetic on the values above
\* ------------------------------------------------------------------------
Abs(n) == IF n < 0 THEN -n ELSE n

RECURSIVE Gcd(_, _)
Gcd(a, b) == IF b = 0 THEN a ELSE Gcd(b, a % b)

PyFloat(n, d) ==
    LET s == IF d < 0 THEN -1 ELSE 1
        g == Gcd(Abs(n), Abs(d))
    IN  PyFloatRaw((s * n) \div g, (s * d) \div g)

IsNumber(v) == v.py \in {"int", "bool", "float"}
IsInt(v) == v.py \in {"int", "bool"}
\* numerator and denominator of a number (True is 1, False is 0)
Num(v) == CASE v.py = "int" -> v.v
            [] v.py = "bool" -> (IF v.v THEN 1 ELSE 0)
            [] v.py = "float" -> v.num
Den(v) == IF v.py = "float" THEN v.den ELSE 1

\* Python ==
PyEq(a, b) ==
    IF IsNumber(a) /\ IsNumber(b) THEN Num(a) * Den(b) = Num(b) * Den(a)
    ELSE IF a.py # b.py THEN FALSE
    ELSE a = b
\* `x == 0` as the zero tests of execute write it
IsZero(v) == IsNumber(v) /\ Num(v) = 0

\* bool(v), the truth value Python's `if` and `while` take
Truthy(v) ==
    CASE v.py = "NoneType" -> FALSE
      [] v.py \in {"int", "bool", "float"} -> Num(v) # 0
      [] v.py = "str" -> v.v # ""
      [] v.py = "tuple" -> v.items # <<>>
      [] OTHER -> TRUE

RECURSIVE Repeat(_, _)
Repeat(s, n) == IF n <= 0 THEN <<>> ELSE s \o Repeat(s, n - 1)
RECURSIVE RepeatStr(_, _)
RepeatStr(s, n) == IF n <= 0 THEN "" ELSE s \o RepeatStr(s, n - 1)

\* floor of the fraction n/d, d > 0
FloorDiv(n, d) == n \div d

\* a op b on Python values; the result is <<"ok", value>> or <<"raise", exc>>
PyArith(op, a, b) ==
    IF IsNumber(a) /\ IsNumber(b) THEN
        LET isf == a.py = "float" \/ b.py = "float" IN
        CASE op = "+" -> IF isf THEN <<"ok", PyFloat(Num(a) * Den(b) + Num(b) * Den(a), Den(a) * Den(b))>>
                         ELSE <<"ok", PyInt(Num(a) + Num(b))>>
          [] op = "-" -> IF isf THEN <<"ok", PyFloat(Num(a) * Den(b) - Num(b) * Den(a), Den(a) * Den(b))>>
                         ELSE <<"ok", PyInt(Num(a) - Num(b))>>
          [] op = "*" -> IF isf THEN <<"ok", PyFloat(Num(a) * Num(b), Den(a) * Den(b))>>
                         ELSE <<"ok", PyInt(Num(a) * Num(b))>>
          [] op = "/" -> IF Num(b) = 0 THEN <<"raise", PyExc("ZeroDivisionError", "division by zero")>>
                         ELSE <<"ok", PyFloat(Num(a) * Den(b), Den(a) * Num(b))>>
          [] op = "%" -> IF Num(b) = 0 THEN <<"raise", PyExc("ZeroDivisionError", "modulo by zero")>>
                         ELSE IF isf THEN
                            \* a - b * floor(a / b)
                            LET qn == Num(a) * Den(b)
                                qd == Den(a) * Num(b)
                                q == IF qd < 0 THEN FloorDiv(-qn, -qd) ELSE FloorDiv(qn, qd)
                            IN <<"ok", PyFloat(Num(a) * Den(b) - q * Num(b) * Den(a), Den(a) * Den(b))>>
                         ELSE IF Num(b) < 0 THEN <<"ok", PyInt(-((-Num(a)) % (-Num(b))))>>
                         ELSE <<"ok", PyInt(Num(a) % Num(b))>>
    ELSE IF op = "+" /\ a.py = "str" /\ b.py = "str" THEN <<"ok", PyStr(a.v \o b.v)>>
    ELSE IF op = "+" /\ a.py = "tuple" /\ b.py = "tuple" THEN <<"ok", PyTuple(a.items \o b.items)>>
    ELSE IF op = "*" /\ a.py = "str" /\ IsInt(b) THEN <<"ok", PyStr(RepeatStr(a.v, Num(b)))>>
    ELSE IF op = "*" /\ IsInt(a) /\ b.py = "str" THEN <<"ok", PyStr(RepeatStr(b.v, Num(a)))>>
    ELSE IF op = "*" /\ a.py = "tuple" /\ IsInt(b) THEN <<"ok", PyTuple(Repeat(a.items, Num(b)))>>
    ELSE IF op = "*" /\ IsInt(a) /\ b.py = "tuple" THEN <<"ok", PyTuple(Repeat(b.items, Num(a)))>>
    ELSE <<"raise", PyExc("TypeError", "unsupported operand type(s)")>>

\* a op b for the comparison operators; ordering is defined between numbers
\* (ordering two texts is outside the inputs of this model)
PyCompare(op, a, b) ==
    CASE op = "==" -> <<"ok", PyBool(PyEq(a, b))>>
      [] op = "!=" -> <<"ok", PyBool(~PyEq(a, b))>>
      [] OTHER ->
        IF IsNumber(a) /\ IsNumber(b) THEN
            LET l == Num(a) * Den(b)
                r == Num(b) * Den(a)
            IN CASE op = "<" -> <<"ok", PyBool(l < r)>>
                 [] op = ">" -> <<"ok", PyBool(l > r)>>
                 [] op = "<=" -> <<"ok", PyBool(l <= r)>>
                 [] op = ">=" -> <<"ok", PyBool(l >= r)>>
        ELSE <<"raise", PyExc("TypeError", "not supported between instances")>>

\* ------------------------------------------------------------------------
\* Type System (class ZiskTypeSystem)
\* ------------------------------------------------------------------------
\* type_map: Zisk type name -> Python type, in the order of the dict literal
type_map ==
    << <<"entero", "int">>, <<"decimal", "float">>, <<"texto", "str">>,
       <<"booleano", "bool">>, <<"lista", "list">>, <<"objeto", "dict">>,
       <<"funcion", "function">>, <<"clase", "type">>, <<"nulo", "NoneType">> >>

\* isinstance(value, py_type): bool is a subclass of int
IsInstance(value, py_type) ==
    \/ value.py = py_type
    \/ py_type = "int" /\ value.py = "bool"

TypeMapGet(name) ==
    LET hits == {i \in 1..Len(type_map) : type_map[i][1] = name}
    IN IF hits = {} THEN NoName ELSE type_map[CHOOSE i \in hits : TRUE][2]

\* check_type; class_hierarchy is the set of registered class names
check_type(value, expected_type_zisk, class_hierarchy) ==
    IF expected_type_zisk = "nulo" THEN value.py = "NoneType"
    ELSE IF expected_type_zisk \in class_hierarchy
              /\ value.py \in {"type", "instance"}
              /\ value.cls = expected_type_zisk THEN TRUE
    ELSE LET py_type == TypeMapGet(expected_type_zisk)
         IN IF py_type = NoName THEN FALSE ELSE IsInstance(value, py_type)

infer_type(value, class_hierarchy) ==
    IF value.py = "NoneType" THEN "nulo"
    ELSE IF value.py = "instance" /\ value.cls \in class_hierarchy THEN value.cls
    ELSE LET hits == {i \in 1..Len(type_map) : IsInstance(value, type_map[i][2])}
         IN IF hits = {} THEN "desconocido"
            ELSE type_map[CHOOSE i \in hits : \A j \in hits : i <= j][1]

\* validate_assignment: <<"ok">> or <<"raise", ZiskTypeError>>
validate_assignment(value, expected_type_zisk, class_hierarchy) ==
    IF expected_type_zisk = NoName THEN <<"ok">>
    ELSE IF value.py # "NoneType" /\ ~check_type(value, expected_type_zisk, class_hierarchy)
         THEN <<"raise", ZiskTypeError("Tipos incompatibles")>>
    ELSE <<"ok">>

\* validate_function_call: arity, then each typed parameter in order
validate_function_call(args, expected_params, class_hierarchy) ==
    IF Len(args) # Len(expected_params)
    THEN <<"raise", ZiskTypeError("espera argumentos")>>
    ELSE LET bad == {i \in 1..Len(args) :
                        expected_params[i][2] # NoName
                        /\ validate_assignment(args[i], expected_params[i][2], class_hierarchy)[1] = "raise"}
         IN IF bad = {} THEN <<"ok">> ELSE <<"raise", ZiskTypeError("Tipos incompatibles")>>

\* ------------------------------------------------------------------------
\* Runtime scopes (ZiskREPL.scopes and its helpers)
\* ------------------------------------------------------------------------
\* a frame maps a name to its entry (value, {'is_const', 'type'})
EmptyFrame == [n \in {} |-> PyNone]
Entry(value, is_const, type) == [value |-> value, is_const |-> is_const, type |-> type]
Put(frame, name, entry) ==
    [n \in (DOMAIN frame) \cup {name} |-> IF n = name THEN entry ELSE frame[n]]

\* the evaluator-side state that execute reads and writes
\* (out is what the native `mostrar` has printed during the current call)
REPLState(scopes_, functions_, classes_, modules_, is_in_loop_, is_in_function_, class_hierarchy_, out_) ==
    [scopes |-> scopes_, functions |-> functions_, classes |-> classes_,
     modules |-> modules_, is_in_loop |-> is_in_loop_,
     is_in_function |-> is_in_function_, class_hierarchy |-> class_hierarchy_,
     out |-> out_,
     \* a new ZiskREPL has no class object and no receiver; the Type System it is
     \* given has no method signature and the interpreter has made no object yet
     class_objects |-> EmptyFrame, current_self |-> None,
     method_signatures |-> {}, heap |-> <<>>]

\* the class names registered in the shared Type System
class_hierarchy_of(st) == DOMAIN st.class_hierarchy

enter_scope(st) == [st EXCEPT !.scopes = Append(@, EmptyFrame)]

exit_scope(st) ==
    IF Len(st.scopes) > 1
    THEN [st EXCEPT !.scopes = SubSeq(@, 1, Len(@) - 1)]
    ELSE st

\* a new object: its address is the next one of the heap
New(st, object) == [st EXCEPT !.heap = Append(@, object)]
ListObject(items) == [kind |-> "list", items |-> items]
DictObject(dict) == [kind |-> "dict", dict |-> dict]
\* an instance: its class object and its __dict__
InstanceObject(class, dict) == [kind |-> "instance", class |-> class, dict |-> dict]
\* type(name, (base,), class_attrs): base is 0 for `object`; generated_init
\* tells whether class_attrs holds the generated __init__, which closes over
\* instance_fields_init
ClassObject(name, base, attrs, generated_init, instance_fields_init) ==
    [kind |-> "class", name |-> name, base |-> base, attrs |-> attrs,
     generated_init |-> generated_init, instance_fields_init |-> instance_fields_init]

\* the lookup of a name along the classes from the one at `at` to object
RECURSIVE ClassLookup(_, _, _)
ClassLookup(heap_, at, name) ==
    IF at = 0 THEN <<>>
    ELSE IF name \in DOMAIN heap_[at].attrs THEN <<heap_[at].attrs[name]>>
    ELSE ClassLookup(heap_, heap_[at].base, name)

\* what an instance makes of a class attribute: a function becomes a method
\* bound to the instance, a staticmethod gives its function
Bind(v, obj) ==
    IF v.py = "function" /\ ~("static" \in DOMAIN v /\ v.static) THEN PyBound(v, obj) ELSE v

\* hasattr / getattr on an instance or a class: <<>> or <<value>>
GetAttr(st, obj, name) ==
    CASE obj.py = "instance" ->
            IF name \in DOMAIN st.heap[obj.at].dict THEN <<st.heap[obj.at].dict[name]>>
            ELSE Let(ClassLookup(st.heap, st.heap[obj.at].class, name), LAMBDA c :
                 IF c = <<>> THEN <<>> ELSE <<Bind(c[1], obj)>>)
      [] obj.py = "type" -> ClassLookup(st.heap, obj.at, name)

\* the class of the chain whose __init__ a new instance runs: the first one
\* that holds a generated __init__, 0 when it is object.__init__
RECURSIVE FindInit(_, _)
FindInit(heap_, at) ==
    IF at = 0 THEN 0
    ELSE IF heap_[at].generated_init THEN at
    ELSE FindInit(heap_, heap_[at].base)

\* str(index_val) of a key
StrOf(v) ==
    CASE v.py = "int" -> ToString(v.v)
      [] v.py = "str" -> v.v
      [] v.py = "bool" -> IF v.v THEN "True" ELSE "False"
      [] v.py = "NoneType" -> "None"

\* index of the innermost frame that contains name, 0 when there is none
FindScope(scopes_, name) ==
    LET hits == {i \in 1..Len(scopes_) : name \in DOMAIN scopes_[i]}
    IN IF hits = {} THEN 0 ELSE CHOOSE i \in hits : \A j \in hits : j <= i

_declare_variable(st, name, value, tipo_zisk, is_const) ==
    LET top == Len(st.scopes)
        scope == st.scopes[top]
        ch == class_hierarchy_of(st)
    IN  IF name \in DOMAIN scope /\ scope[name].is_const
        THEN Raise(st, ZiskRuntimeError("No se puede reasignar la constante"))
        ELSE IF name \in DOMAIN scope /\ is_const
        THEN Raise(st, ZiskRuntimeError("ya declarada como variable"))
        ELSE Let(IF tipo_zisk # NoName THEN validate_assignment(value, tipo_zisk, ch)
                 ELSE <<"ok">>, LAMBDA va :
        IF va[1] = "raise" THEN Raise(st, va[2])
        ELSE Ok([st EXCEPT !.scopes[top] =
                    Put(@, name, Entry(value, is_const,
                                       IF tipo_zisk # NoName THEN tipo_zisk
                                       ELSE infer_type(value, ch)))],
                PyNone))

_get_variable_value(st, name) ==
    LET i == FindScope(st.scopes, name)
    IN  IF i # 0 THEN Ok(st, st.scopes[i][name].value)
        ELSE IF name \in DOMAIN st.functions THEN Ok(st, st.functions[name])
        ELSE IF name \in st.classes THEN Ok(st, PyClassAt(name, st.class_objects[name]))
        ELSE IF name \in DOMAIN st.modules THEN Ok(st, PyModule(name))
        ELSE Raise(st, ZiskRuntimeError("Nombre no definido"))

\* ------------------------------------------------------------------------
\* AST nodes, in the shape ZiskParser builds them
\* ------------------------------------------------------------------------
Pos == <<1, 1>>
Numero(n) == <<"NUMERO", PyInt(n)>>
Cadena(s) == <<"CADENA", PyStr(s)>>
Booleano(b) == <<"BOOLEANO", PyBool(b)>>
Nulo == <<"NULO", PyNone>>
Identificador(name) == <<"IDENTIFICADOR", name>>
Aritmetica(op, l, r) == <<"OPERACION_ARITMETICA", op, l, r>>
Comparacion(op, l, r) == <<"OPERACION_COMPARACION", op, l, r>>
Logica(op, l, r) == <<"OPERACION_LOGICA", op, l, r>>
Unaria(op, e) == <<"OPERACION_UNARIA", op, e>>
Asignacion(op, lhs, rhs) == <<"ASIGNACION", op, lhs, rhs>>
Llamada(callee, args) == <<"LLAMADA", callee, args>>
Mostrar(args) == <<"LLAMADA_NATIVA", "mostrar", args>>
DeclVar(name, tipo, val) == <<"DECLARACION_VAR", name, tipo, val>>
DeclConst(name, tipo, val) == <<"DECLARACION_CONST", name, tipo, val>>
Funcion(name, params, ret, body) == <<"FUNCION", name, params, ret, body>>
Bloque(stmts) == <<"BLOQUE", stmts>>
\* the BLOQUE node parse_bloque_o_sentencia wraps a single statement in; its
\* third component records that the text has no `{` there, which is all the
\* parser looks at to tell the two bodies apart
Sentencia(stmt) == <<"BLOQUE", <<stmt>>, "sin llaves">>
Si(cond, si_b, sino_b) == <<"SI", cond, si_b, sino_b>>
Mientras(cond, body) == <<"MIENTRAS", cond, body>>
Para(init, cond, update, body) == <<"PARA", init, cond, update, body>>
HacerMientras(body, cond) == <<"HACER_MIENTRAS", body, cond>>
Retorna(val) == <<"RETORNA", val, Pos>>
Break == <<"BREAK", Pos>>
Continua == <<"CONTINUA", Pos>>
TryCatch(try_b, err_var, catch_b, finally_b) ==
    <<"TRY_CATCH", try_b, err_var, catch_b, finally_b>>
Programa(decls) == <<"PROGRAMA", decls>>
\* superclase is NoName for a class without `extiende`
Clase(nombre, superclase, miembros) == <<"CLASE", nombre, superclase, miembros>>
\* alias is NoName for an import without `como`
Importa(path, alias) == <<"IMPORTA", path, alias>>
\* the members of a class, public as they are without a modifier
Metodo(nombre, params, ret, cuerpo, es_estatico) == <<"METODO", nombre, params, ret, cuerpo, es_estatico, TRUE>>
VarMiembro(nombre, tipo, valor, es_estatico) == <<"DECLARACION_VAR_MIEMBRO", nombre, tipo, valor, es_estatico, TRUE>>
Constructor(clase, args) == <<"CONSTRUCTOR", clase, args>>
AccesoMiembro(objeto, miembro) == <<"ACCESO_MIEMBRO", objeto, miembro>>
AccesoIndice(coleccion, indice) == <<"ACCESO_INDICE", coleccion, indice>>
Este == <<"ESTE">>
ListaLiteral(elementos) == <<"LISTA_LITERAL", elementos>>
\* propiedades: the pairs (clave_str, valor_nodo)
ObjetoLiteral(propiedades) == <<"OBJETO_LITERAL", propiedades>>

\* ------------------------------------------------------------------------
\* ZiskLexer.  A text is a sequence of one-character strings and so is the
\* value of a token.  The compiled expression of the lexer is the ordered
\* alternation of the entries of tokens_spec: at a position the first entry
\* that matches there wins, with the match its own pattern gives.
\* ------------------------------------------------------------------------
LowerCase ==
    {"a", "b", "c", "d", "e", "f", "g", "h", "i", "j", "k", "l", "m",
     "n", "o", "p", "q", "r", "s", "t", "u", "v", "w", "x", "y", "z"}
UpperCase ==
    {"A", "B", "C", "D", "E", "F", "G", "H", "I", "J", "K", "L", "M",
     "N", "O", "P", "Q", "R", "S", "T", "U", "V", "W", "X", "Y", "Z"}
Digits == {"0", "1", "2", "3", "4", "5", "6", "7", "8", "9"}
\* [a-zA-Z_] and [a-zA-Z0-9_]
WordStart == LowerCase \cup UpperCase \cup {"_"}
WordChar == WordStart \cup Digits
\* \s
Blank == {" ", "\t", "\n", "\r", "\f"}

\* tokens_spec, in the order of the source
tokens_spec ==
    <<[name |-> "HACER_MIENTRAS", kind |-> "words", words |-> <<<<"h", "a", "c", "e", "r", "_", "m", "i", "e", "n", "t", "r", "a", "s">>>>],
      [name |-> "VERDADERO", kind |-> "words", words |-> <<<<"v", "e", "r", "d", "a", "d", "e", "r", "o">>>>],
      [name |-> "CONTINUA", kind |-> "words", words |-> <<<<"c", "o", "n", "t", "i", "n", "u", "a">>>>],
      [name |-> "EXTIENDE", kind |-> "words", words |-> <<<<"e", "x", "t", "i", "e", "n", "d", "e">>>>],
      [name |-> "ENTONCES", kind |-> "words", words |-> <<<<"e", "n", "t", "o", "n", "c", "e", "s">>>>],
      [name |-> "ESTATICO", kind |-> "words", words |-> <<<<"e", "s", "t", "a", "t", "i", "c", "o">>>>],
      [name |-> "FUNCION", kind |-> "words", words |-> <<<<"f", "u", "n", "c", "i", "o", "n">>>>],
      [name |-> "IMPORTA", kind |-> "words", words |-> <<<<"i", "m", "p", "o", "r", "t", "a">>>>],
      [name |-> "INGRESAR", kind |-> "words", words |-> <<<<"i", "n", "g", "r", "e", "s", "a", "r">>>>],
      [name |-> "MIENTRAS", kind |-> "words", words |-> <<<<"m", "i", "e", "n", "t", "r", "a", "s">>>>],
      [name |-> "MOSTRAR", kind |-> "words", words |-> <<<<"m", "o", "s", "t", "r", "a", "r">>>>],
      [name |-> "PRIVADO", kind |-> "words", words |-> <<<<"p", "r", "i", "v", "a", "d", "o">>>>],
      [name |-> "PUBLICO", kind |-> "words", words |-> <<<<"p", "u", "b", "l", "i", "c", "o">>>>],
      [name |-> "RETORNA", kind |-> "words", words |-> <<<<"r", "e", "t", "o", "r", "n", "a">>>>],
      [name |-> "FINALLY", kind |-> "words", words |-> <<<<"f", "i", "n", "a", "l", "l", "y">>>>],
      [name |-> "AWAIT", kind |-> "words", words |-> <<<<"a", "w", "a", "i", "t">>>>],
      [name |-> "CLASE", kind |-> "words", words |-> <<<<"c", "l", "a", "s", "e">>>>],
      [name |-> "CONST", kind |-> "words", words |-> <<<<"c", "o", "n", "s", "t">>>>],
      [name |-> "DESDE", kind |-> "words", words |-> <<<<"d", "e", "s", "d", "e">>>>],
      [name |-> "FALSO", kind |-> "words", words |-> <<<<"f", "a", "l", "s", "o">>>>],
      [name |-> "NUEVO", kind |-> "words", words |-> <<<<"n", "u", "e", "v", "o">>>>],
      [name |-> "SINO", kind |-> "words", words |-> <<<<"s", "i", "n", "o">>>>],
      [name |-> "ASYNC", kind |-> "words", words |-> <<<<"a", "s", "y", "n", "c">>>>],
      [name |-> "BREAK", kind |-> "words", words |-> <<<<"b", "r", "e", "a", "k">>>>],
      [name |-> "CATCH", kind |-> "words", words |-> <<<<"c", "a", "t", "c", "h">>>>],
      [name |-> "COMO", kind |-> "words", words |-> <<<<"c", "o", "m", "o">>>>],
      [name |-> "ESTE", kind |-> "words", words |-> <<<<"e", "s", "t", "e">>>>],
      [name |-> "PARA", kind |-> "words", words |-> <<<<"p", "a", "r", "a">>>>],
      [name |-> "NULO", kind |-> "words", words |-> <<<<"n", "u", "l", "o">>>>],
      [name |-> "TIPO", kind |-> "words", words |-> <<<<"e", "n", "t", "e", "r", "o">>, <<"d", "e", "c", "i", "m", "a", "l">>, <<"t", "e", "x", "t", "o">>, <<"b", "o", "o", "l", "e", "a", "n", "o">>, <<"l", "i", "s", "t", "a">>, <<"o", "b", "j", "e", "t", "o">>, <<"f", "u", "n", "c", "i", "o", "n">>, <<"c", "l", "a", "s", "e">>>>],
      [name |-> "VAR", kind |-> "words", words |-> <<<<"v", "a", "r">>>>],
      [name |-> "SI", kind |-> "words", words |-> <<<<"s", "i">>>>],
      [name |-> "EN", kind |-> "words", words |-> <<<<"e", "n">>>>],
      [name |-> "TRY", kind |-> "words", words |-> <<<<"t", "r", "y">>>>],
      [name |-> "IDENTIFICADOR", kind |-> "IDENTIFICADOR", words |-> <<>>],
      [name |-> "NUMERO", kind |-> "NUMERO", words |-> <<>>],
      [name |-> "CADENA", kind |-> "CADENA", words |-> <<>>],
      [name |-> "OPERADOR", kind |-> "words",
         words |-> <<<<"=", "=">>, <<"!", "=">>, <<"<", "=">>, <<">", "=">>, <<"|", "|">>, <<"&", "&">>, <<"+", "=">>, <<"-", "=">>, <<"*", "=">>, <<"/", "=">>, <<"%", "=">>, <<"+">>, <<"-">>, <<"*">>, <<"/">>, <<"%">>, <<"=">>, <<"<">>, <<">">>, <<"!">>>>],
      [name |-> "PARENTESIS", kind |-> "words", words |-> <<<<"(">>, <<")">>>>],
      [name |-> "LLAVE", kind |-> "words", words |-> <<<<"{">>, <<"}">>>>],
      [name |-> "CORCHETE", kind |-> "words", words |-> <<<<"[">>, <<"]">>>>],
      [name |-> "COMA", kind |-> "words", words |-> <<<<",">>>>],
      [name |-> "PUNTO", kind |-> "words", words |-> <<<<".">>>>],
      [name |-> "PUNTO_COMA", kind |-> "words", words |-> <<<<";">>>>],
      [name |-> "DOS_PUNTOS", kind |-> "words", words |-> <<<<":">>>>],
      [name |-> "COMENTARIO_LINEA", kind |-> "COMENTARIO_LINEA", words |-> <<>>],
      [name |-> "COMENTARIO_BLOQUE", kind |-> "COMENTARIO_BLOQUE", words |-> <<>>],
      [name |-> "ESPACIO", kind |-> "ESPACIO", words |-> <<>>],
      [name |-> "NO_VALIDO", kind |-> "NO_VALIDO", words |-> <<>>]>>

\* the entries whose tokens tokenize drops
Skipped == {"COMENTARIO_LINEA", "COMENTARIO_BLOQUE", "ESPACIO"}

\* the number of characters from position p on that belong to cls
RECURSIVE Run(_, _, _)
Run(code, p, cls) ==
    IF p <= Len(code) /\ code[p] \in cls THEN 1 + Run(code, p + 1, cls) ELSE 0

\* [^\n]*: the number of characters from p up to the end of the line
RECURSIVE RestOfLine(_, _)
RestOfLine(code, p) ==
    IF p <= Len(code) /\ code[p] # "\n" THEN 1 + RestOfLine(code, p + 1) ELSE 0

\* the literal word stands at position p
Literally(code, p, word) ==
    /\ p + Len(word) - 1 <= Len(code)
    /\ SubSeq(code, p, p + Len(word) - 1) = word

\* w1|w2|...: the length of the first word of the list that stands at p,
\* 0 when none does
FirstOf(code, p, words) ==
    Let({i \in DOMAIN words : Literally(code, p, words[i])}, LAMBDA hits :
    IF hits = {} THEN 0 ELSE Len(words[CHOOSE i \in hits : \A j \in hits : i <= j]))

\* the first position from p on where word stands, 0 when there is none
RECURSIVE Find(_, _, _)
Find(code, p, word) ==
    IF p + Len(word) - 1 > Len(code) THEN 0
    ELSE IF Literally(code, p, word) THEN p
    ELSE Find(code, p + 1, word)

\* \d+(\.\d+)?
MatchNumero(code, p) ==
    Let(Run(code, p, Digits), LAMBDA n :
    IF n = 0 THEN 0
    ELSE IF p + n <= Len(code) /\ code[p + n] = "." /\ Run(code, p + n + 1, Digits) > 0
    THEN n + 1 + Run(code, p + n + 1, Digits)
    ELSE n)

\* (?:[^"\\]|\\.)*" from p on: the position of the closing quote, 0 when
\* the string is not closed (a backslash takes the next character with it,
\* unless that is a newline)
RECURSIVE StringEnd(_, _)
StringEnd(code, p) ==
    IF p > Len(code) THEN 0
    ELSE IF code[p] = "\"" THEN p
    ELSE IF code[p] = "\\"
    THEN IF p + 1 <= Len(code) /\ code[p + 1] # "\n" THEN StringEnd(code, p + 2) ELSE 0
    ELSE StringEnd(code, p + 1)

MatchCadena(code, p) ==
    IF code[p] = "\"" /\ StringEnd(code, p + 1) # 0 THEN StringEnd(code, p + 1) - p + 1 ELSE 0

\* (//|#)[^\n]*
MatchComentarioLinea(code, p) ==
    IF Literally(code, p, <<"/", "/">>) THEN 2 + RestOfLine(code, p + 2)
    ELSE IF code[p] = "#" THEN 1 + RestOfLine(code, p + 1)
    ELSE 0

\* open[\s\S]*?close: up to the first close after the opening
Enclosed(code, p, open, close) ==
    IF Literally(code, p, open) /\ Find(code, p + Len(open), close) # 0
    THEN Find(code, p + Len(open), close) + Len(close) - p
    ELSE 0

\* (/\*[\s\S]*?\*/|###[\s\S]*?###)
MatchComentarioBloque(code, p) ==
    IF Enclosed(code, p, <<"/", "*">>, <<"*", "/">>) # 0
    THEN Enclosed(code, p, <<"/", "*">>, <<"*", "/">>)
    ELSE Enclosed(code, p, <<"#", "#", "#">>, <<"#", "#", "#">>)

\* the length of the match of one entry of tokens_spec at position p, 0 when
\* it does not match (no entry matches the empty text)
Match(code, p, entry) ==
    CASE entry.kind = "words" -> FirstOf(code, p, entry.words)
      [] entry.kind = "IDENTIFICADOR" ->
            IF code[p] \in WordStart THEN 1 + Run(code, p + 1, WordChar) ELSE 0
      [] entry.kind = "NUMERO" -> MatchNumero(code, p)
      [] entry.kind = "CADENA" -> MatchCadena(code, p)
      [] entry.kind = "COMENTARIO_LINEA" -> MatchComentarioLinea(code, p)
      [] entry.kind = "COMENTARIO_BLOQUE" -> MatchComentarioBloque(code, p)
      [] entry.kind = "ESPACIO" -> Run(code, p, Blank)
      [] entry.kind = "NO_VALIDO" -> IF code[p] # "\n" THEN 1 ELSE 0

\* regex_compilado.match(code, p): the index of the first entry of
\* tokens_spec that matches at p, 0 when none does
regex_compilado(code, p) ==
    Let({i \in DOMAIN tokens_spec : Match(code, p, tokens_spec[i]) > 0}, LAMBDA hits :
    IF hits = {} THEN 0 ELSE CHOOSE i \in hits : \A j \in hits : i <= j)

Token(tipo, valor, linea, col) ==
    [tipo |-> tipo, valor |-> valor, linea |-> linea, col |-> col]

\* valor_token.count('\n')
RECURSIVE CountNewlines(_)
CountNewlines(valor) ==
    IF valor = <<>> THEN 0
    ELSE (IF Head(valor) = "\n" THEN 1 ELSE 0) + CountNewlines(Tail(valor))

\* valor_token.rfind('\n') + 1: the place of the last newline of valor, 0
\* when there is none
RECURSIVE LastNewline(_, _)
LastNewline(valor, i) ==
    IF i = 0 THEN 0 ELSE IF valor[i] = "\n" THEN i ELSE LastNewline(valor, i - 1)

\* the while loop of tokenize from position p (counted from 1) on; linea_num
\* and col_inicio_linea are the loop's variables, the latter counted from 0
\* as in the source.  The result is <<"ok", tokens>> or <<"raise", e>>.
\* match.lastgroup and match.group() of regex_compilado.match(code, p); the
\* type is "" when nothing matches
MatchAt(code, p) ==
    Let(regex_compilado(code, p), LAMBDA i :
        [tipo_token |-> IF i = 0 THEN "" ELSE tokens_spec[i].name,
         valor_token |-> IF i = 0 THEN <<>>
                         ELSE SubSeq(code, p, p + Match(code, p, tokens_spec[i]) - 1)])

\* one turn of the while loop of tokenize.  loop holds the loop's variables:
\* posicion (counted from 1 here), linea_num, col_inicio_linea (counted from
\* 0 as in the source), tokens_encontrados, and the error raised, if any
LoopTurn(code, loop, match) ==
    IF match.tipo_token = ""
    THEN [loop EXCEPT !.raised = <<ZiskError("Caracter inesperado")>>]
    ELSE IF match.tipo_token = "NO_VALIDO"
    THEN [loop EXCEPT !.raised = <<ZiskError("Caracter no valido")>>]
    ELSE [posicion |-> loop.posicion + Len(match.valor_token),
          linea_num |-> loop.linea_num + CountNewlines(match.valor_token),
          col_inicio_linea |->
             IF CountNewlines(match.valor_token) > 0
             THEN (loop.posicion - 1) + LastNewline(match.valor_token, Len(match.valor_token))
             ELSE loop.col_inicio_linea,
          tokens_encontrados |->
             IF match.tipo_token \in Skipped THEN loop.tokens_encontrados
             ELSE Append(loop.tokens_encontrados,
                         Token(match.tipo_token, match.valor_token, loop.linea_num,
                               (loop.posicion - 1) - loop.col_inicio_linea + 1)),
          raised |-> <<>>]

RECURSIVE TokenizeFrom(_, _)
TokenizeFrom(code, loop) ==
    IF loop.posicion > Len(code) \/ loop.raised # <<>> THEN loop
    ELSE TokenizeFrom(code, LoopTurn(code, loop, MatchAt(code, loop.posicion)))

tokenize(code) ==
    Let(TokenizeFrom(code, [posicion |-> 1, linea_num |-> 1, col_inicio_linea |-> 0,
                            tokens_encontrados |-> <<>>, raised |-> <<>>]), LAMBDA loop :
    IF loop.raised # <<>> THEN <<"raise", loop.raised[1]>>
    ELSE <<"ok", loop.tokens_encontrados>>)

\* ------------------------------------------------------------------------
\* Parser: the declaration-scope bookkeeping of ZiskParser (self.scopes).
\* The inputs of the model are programs that tokenize and parse, written as
\* the AST the parser returns for them; what the parser still decides, and
\* what it keeps from one call to the next, is its scope stack.
\* ------------------------------------------------------------------------
parser_enter_scope(ps) == Append(ps, EmptyFrame)
parser_exit_scope(ps) == IF Len(ps) > 1 THEN SubSeq(ps, 1, Len(ps) - 1) ELSE ps
variable_declared_in_current_scope(ps, name) == name \in DOMAIN ps[Len(ps)]
ParserDeclare(ps, name, kind, tipo) ==
    [ps EXCEPT ![Len(ps)] = Put(@, name, [kind |-> kind, tipo |-> tipo])]

RECURSIVE parse_declaracion(_, _)
RECURSIVE ParseList(_, _)
RECURSIVE ParseParams(_, _)

\* parse_declaracion_variable / parse_declaracion_constante (not a member)
parse_declaracion_variable(node, ps, kind) ==
    IF variable_declared_in_current_scope(ps, node[2])
    THEN Raise(ps, ZiskError("ya declarada en este ambito"))
    ELSE Ok(ParserDeclare(ps, node[2], kind, node[3]), node)

\* parse_bloque(is_function_body): the body's statements, then exit_scope
parse_bloque(node, ps, is_function_body) ==
    Let(ParseList(node[2], IF is_function_body THEN ps ELSE parser_enter_scope(ps)),
        LAMBDA r : IF r.k = "raise" THEN r ELSE Ok(parser_exit_scope(r.st), node))

\* parse_bloque_o_sentencia: a block in braces, or one statement parsed in a
\* scope of its own
parse_bloque_o_sentencia(node, ps) ==
    IF Len(node) = 2 THEN parse_bloque(node, ps, FALSE)
    ELSE Let(parse_declaracion(node[2][1], parser_enter_scope(ps)),
             LAMBDA r : IF r.k = "raise" THEN r ELSE Ok(parser_exit_scope(r.st), node))

\* the parameter loop of parse_funcion
ParseParams(params, ps) ==
    IF params = <<>> THEN ps
    ELSE ParseParams(Tail(params), ParserDeclare(ps, Head(params)[1], "PARAM", Head(params)[2]))

parse_funcion(node, ps) ==
    parse_bloque(node[5], ParseParams(node[3], parser_enter_scope(ps)), TRUE)

\* a node slot that may be None
ParseOpt(node, ps) == IF node = None THEN Ok(ps, node) ELSE parse_declaracion(node, ps)

parse_si(node, ps) ==
    Let(parse_bloque_o_sentencia(node[3], ps),
        LAMBDA r : IF r.k = "raise" \/ node[4] = None THEN r
                   ELSE parse_bloque_o_sentencia(node[4], r.st))

\* the clause `var i = ...` of a `para` is declared in the scope the loop is in
parse_para(node, ps) ==
    Let(ParseOpt(node[2], ps),
        LAMBDA r : IF r.k = "raise" THEN r ELSE parse_bloque_o_sentencia(node[5], r.st))

parse_try_catch(node, ps) ==
    Let(parse_bloque(node[2], ps, FALSE), LAMBDA t :
    IF t.k = "raise" THEN t
    ELSE Let(IF node[4] = None THEN t
             ELSE parse_bloque(node[4],
                     ParserDeclare(parser_enter_scope(t.st), node[3], "VAR_ERROR", NoName),
                     FALSE), LAMBDA c :
    IF c.k = "raise" \/ node[5] = None THEN c
    ELSE parse_bloque(node[5], c.st, FALSE)))

\* the spelling of the method names that begin like a keyword of the lexer
Spelling ==
    [constructor |->
            <<"c", "o", "n", "s", "t", "r", "u", "c", "t", "o", "r">>]

\* consume('IDENTIFICADOR') at a name of the program: the lexer has made one
\* IDENTIFICADOR token of the name
ConsumesIdentifier(name) ==
    name \notin DOMAIN Spelling
    \/ Let(MatchAt(Spelling[name], 1), LAMBDA match :
           match.tipo_token = "IDENTIFICADOR" /\ match.valor_token = Spelling[name])

\* parse_metodo_clase: the scope of the parameters is left by parse_bloque
parse_metodo_clase(node, ps) ==
    IF ~ConsumesIdentifier(node[2]) THEN Raise(ps, ZiskError("Se esperaba IDENTIFICADOR"))
    ELSE parse_bloque(node[5], ParseParams(node[3], parser_enter_scope(ps)), TRUE)

\* the member loop of parse_clase; a member variable declares nothing in the
\* scopes of the parser
RECURSIVE ParseMembers(_, _)
ParseMembers(miembros, ps) ==
    IF miembros = <<>> THEN Ok(ps, miembros)
    ELSE Let(IF Head(miembros)[1] = "METODO" THEN parse_metodo_clase(Head(miembros), ps)
             ELSE Ok(ps, Head(miembros)),
             LAMBDA r : IF r.k = "raise" THEN r ELSE ParseMembers(Tail(miembros), r.st))

\* parse_clase: the scope of the class is entered, and left after the members
parse_clase(node, ps) ==
    Let(ParseMembers(node[4], parser_enter_scope(ps)),
        LAMBDA r : IF r.k = "raise" THEN r ELSE Ok(parser_exit_scope(r.st), node))

parse_declaracion(node, ps) ==
    LET node_type == node[1] IN
    CASE node_type = "FUNCION" -> parse_funcion(node, ps)
      [] node_type = "DECLARACION_VAR" -> parse_declaracion_variable(node, ps, "VAR")
      [] node_type = "DECLARACION_CONST" -> parse_declaracion_variable(node, ps, "CONST")
      [] node_type = "SI" -> parse_si(node, ps)
      [] node_type = "MIENTRAS" -> parse_bloque_o_sentencia(node[3], ps)
      [] node_type = "PARA" -> parse_para(node, ps)
      [] node_type = "HACER_MIENTRAS" -> parse_bloque_o_sentencia(node[2], ps)
      [] node_type = "TRY_CATCH" -> parse_try_catch(node, ps)
      [] node_type = "BLOQUE" -> parse_bloque(node, ps, FALSE)
      [] node_type = "CLASE" -> parse_clase(node, ps)
      [] OTHER -> Ok(ps, node)

ParseList(decls, ps) ==
    IF decls = <<>> THEN Ok(ps, decls)
    ELSE Let(parse_declaracion(Head(decls), ps),
             LAMBDA r : IF r.k = "raise" THEN r ELSE ParseList(Tail(decls), r.st))

\* parse / parse_programa
parse(code, ps) == ParseList(code[2], ps)

\* ------------------------------------------------------------------------
\* Module files: the files an import can open, as the programs they parse to
\*
\*   modm.zk    var a = 1; mostrar("m");
\*   modk.zk    clase K { } mostrar("k");
\*   modbad.zk  mostrar("b"); nada;
\* ------------------------------------------------------------------------
Files ==
    [f \in {"modm.zk", "modk.zk", "modbad.zk"} |->
        CASE f = "modm.zk" ->
                <<"PROGRAMA", <<DeclVar("a", NoName, Numero(1)), Mostrar(<<Cadena("m")>>)>> >>
          [] f = "modk.zk" ->
                <<"PROGRAMA", <<Clase("K", NoName, <<>>), Mostrar(<<Cadena("k")>>)>> >>
          [] f = "modbad.zk" ->
                <<"PROGRAMA", <<Mostrar(<<Cadena("b")>>), Identificador("nada")>> >>]

\* the paths an import statement of the model names: an identifier, or a
\* string that already ends in .zk; nofile.zk does not exist
Paths == {"modm", "modm.zk", "modk", "modbad", "nofile"}
\* module_path_str.split('/')[-1].replace('.zk', '')
PathName(path) == IF path = "modm.zk" THEN "modm" ELSE path
\* the path, with .zk appended unless it ends in .zk or holds a separator
PathFile(path) == IF path = "modm.zk" THEN path ELSE path \o ".zk"

\* ------------------------------------------------------------------------
\* Optimizer (ZiskOptimizer.optimize): <<"ok", node>> or <<"raise", exc>>
\* ------------------------------------------------------------------------
\* the children of each node kind: "l" a list of nodes, "n" a node or None,
\* "a" anything optimize copies unchanged (names, operators, positions)
NodeShape(node_type) ==
    CASE node_type = "PROGRAMA" -> <<"l">>
      [] node_type = "BLOQUE" -> <<"l", "a">>
      [] node_type \in {"DECLARACION_VAR", "DECLARACION_CONST"} -> <<"a", "a", "n">>
      [] node_type = "FUNCION" -> <<"a", "a", "a", "n">>
      [] node_type = "SI" -> <<"n", "n", "n">>
      [] node_type \in {"MIENTRAS", "HACER_MIENTRAS"} -> <<"n", "n">>
      [] node_type = "PARA" -> <<"n", "n", "n", "n">>
      [] node_type = "RETORNA" -> <<"n", "a">>
      [] node_type = "TRY_CATCH" -> <<"n", "a", "n", "n">>
      [] node_type \in {"ASIGNACION", "OPERACION_ARITMETICA", "OPERACION_COMPARACION",
                        "OPERACION_LOGICA"} -> <<"a", "n", "n">>
      [] node_type = "OPERACION_UNARIA" -> <<"a", "n">>
      [] node_type = "LLAMADA" -> <<"n", "l">>
      [] node_type = "LLAMADA_NATIVA" -> <<"a", "l">>
      [] node_type = "CLASE" -> <<"a", "a", "l">>
      [] node_type = "METODO" -> <<"a", "a", "a", "n", "a", "a">>
      [] node_type \in {"DECLARACION_VAR_MIEMBRO", "DECLARACION_CONST_MIEMBRO"}
            -> <<"a", "a", "n", "a", "a">>
      [] node_type = "CONSTRUCTOR" -> <<"a", "l">>
      [] node_type = "ACCESO_MIEMBRO" -> <<"n", "a">>
      [] node_type = "ACCESO_INDICE" -> <<"n", "n">>
      [] node_type = "LISTA_LITERAL" -> <<"l">>
      \* "p": the list of pairs (clave_str, valor_nodo), whose heads are strings
      [] node_type = "OBJETO_LITERAL" -> <<"p">>
      [] node_type = "IMPORTA" -> <<"a", "a">>
      [] OTHER -> <<"a">>

RECURSIVE optimize(_)
RECURSIVE OptimizeList(_, _)
RECURSIVE OptimizeProperties(_, _)
RECURSIVE OptimizeChildren(_, _, _)

\* [self.optimize(item) for item in child_node] without the None results
OptimizeList(items, acc) ==
    IF items = <<>> THEN <<"ok", acc>>
    ELSE Let(optimize(Head(items)), LAMBDA o :
         IF o[1] = "raise" THEN o
         ELSE OptimizeList(Tail(items), IF o[2] = None THEN acc ELSE Append(acc, o[2])))

\* optimize of a pair (clave_str, valor_nodo): the pair with its value optimized
OptimizeProperties(items, acc) ==
    IF items = <<>> THEN <<"ok", acc>>
    ELSE Let(optimize(Head(items)[2]), LAMBDA o :
         IF o[1] = "raise" THEN o
         ELSE OptimizeProperties(Tail(items), Append(acc, <<Head(items)[1], o[2]>>)))

\* the loop over ast_node[1:]
OptimizeChildren(ast_node, i, acc) ==
    IF i > Len(ast_node) THEN <<"ok", acc>>
    ELSE LET shape == NodeShape(ast_node[1])[i - 1] IN
         Let(CASE shape = "l" -> OptimizeList(ast_node[i], <<>>)
               [] shape = "p" -> OptimizeProperties(ast_node[i], <<>>)
               [] shape = "n" -> optimize(ast_node[i])
               [] OTHER -> <<"ok", ast_node[i]>>, LAMBDA o :
         IF o[1] = "raise" THEN o
         ELSE OptimizeChildren(ast_node, i + 1, Append(acc, o[2])))

\* OptimizeNode, were a division by zero folded into the literal 0
OptimizeNodeFoldsZeroDivision(current_node) ==
    LET node_type == current_node[1] IN
    IF node_type = "OPERACION_ARITMETICA"
       /\ current_node[3][1] = "NUMERO" /\ current_node[4][1] = "NUMERO"
       /\ current_node[2] \in {"+", "-", "*", "/", "%"}
    THEN LET f == PyArith(current_node[2], current_node[3][2], current_node[4][2])
         IN  IF f[1] = "ok" THEN <<"ok", <<"NUMERO", f[2]>> >>
             ELSE IF f[2].cls = "TypeError" THEN <<"ok", current_node>>
             ELSE <<"ok", <<"NUMERO", PyInt(0)>> >>
    ELSE <<"ok", current_node>>

\* constant folding and dead-code elimination on a node with optimized children
OptimizeNode(current_node) ==
    LET node_type == current_node[1] IN
    IF node_type = "OPERACION_ARITMETICA"
       /\ current_node[3][1] = "NUMERO" /\ current_node[4][1] = "NUMERO"
       /\ current_node[2] \in {"+", "-", "*", "/", "%"}
    THEN LET f == PyArith(current_node[2], current_node[3][2], current_node[4][2])
         IN  IF f[1] = "ok" THEN <<"ok", <<"NUMERO", f[2]>> >>
             ELSE IF f[2].cls = "TypeError" THEN <<"ok", current_node>>
             ELSE f
    ELSE IF node_type = "SI" /\ current_node[2][1] = "BOOLEANO"
    THEN IF current_node[2][2] = PyBool(TRUE) THEN <<"ok", current_node[3]>>
         ELSE <<"ok", current_node[4]>>
    ELSE IF node_type = "MIENTRAS" /\ current_node[2][1] = "BOOLEANO"
            /\ current_node[2][2] = PyBool(FALSE)
    THEN <<"ok", None>>
    ELSE <<"ok", current_node>>

optimize(ast_node) ==
    IF ast_node = None THEN <<"ok", None>>
    ELSE Let(OptimizeChildren(ast_node, 2, <<ast_node[1]>>),
             LAMBDA cs : IF cs[1] = "raise" THEN cs ELSE OptimizeNode(cs[2]))

\* ------------------------------------------------------------------------
\* Evaluator (ZiskREPL.execute)
\* ------------------------------------------------------------------------
RECURSIVE execute(_, _)
RECURSIVE evaluate(_, _, _, _)
RECURSIVE ExecStmts(_, _, _)
RECURSIVE EvalArgs(_, _, _)
RECURSIVE BindParams(_, _, _, _)
RECURSIVE CallValue(_, _, _)
RECURSIVE ClassMembers(_, _, _, _)
RECURSIVE EvalProperties(_, _, _)
RECURSIVE _get_lvalue_location(_, _)
RECURSIVE MientrasLoop(_, _, _)
RECURSIVE ParaLoop(_, _, _)
RECURSIVE HacerMientrasLoop(_, _, _)

\* `for stmt_node in ast_node[1]: result = self.execute(stmt_node)`
ExecStmts(stmts, st, result) ==
    IF stmts = <<>> THEN Ok(st, result)
    ELSE Let(execute(Head(stmts), st),
             LAMBDA r : IF r.k = "raise" THEN r ELSE ExecStmts(Tail(stmts), r.st, r.v))

\* `[self.execute(arg_node) for arg_node in arg_expr_nodes]`, v is the list
EvalArgs(arg_nodes, st, acc) ==
    IF arg_nodes = <<>> THEN Ok(st, acc)
    ELSE Let(execute(Head(arg_nodes), st),
             LAMBDA r : IF r.k = "raise" THEN r
                        ELSE EvalArgs(Tail(arg_nodes), r.st, Append(acc, r.v)))

ExecPrograma(node, st) == ExecStmts(node[2], st, PyNone)

\* BLOQUE: enter_scope, the statements, and exit_scope in a finally clause
ExecBloque(node, st) ==
    Let(ExecStmts(node[2], enter_scope(st), PyNone),
        LAMBDA r : [r EXCEPT !.st = exit_scope(@)])

ExecDeclaracionVar(node, st) ==
    Let(IF node[4] # None THEN execute(node[4], st) ELSE Ok(st, PyNone), LAMBDA r :
    IF r.k = "raise" THEN r
    ELSE Let(_declare_variable(r.st, node[2], r.v, node[3], FALSE), LAMBDA d :
    IF d.k = "raise" THEN d
    ELSE Ok(d.st, r.v)))

ExecDeclaracionConst(node, st) ==
    IF node[4] = None THEN Raise(st, ZiskRuntimeError("Constante debe ser inicializada"))
    ELSE Let(execute(node[4], st), LAMBDA r :
    IF r.k = "raise" THEN r
    ELSE Let(_declare_variable(r.st, node[2], r.v, node[3], TRUE), LAMBDA d :
    IF d.k = "raise" THEN d
    ELSE Ok(d.st, r.v)))

\* FUNCION: the wrapper closure is stored under the function's name
ExecFuncion(node, st) ==
    Ok([st EXCEPT !.functions = Put(@, node[2], PyFunc(node[2], node[3], node[4], node[5]))],
       PyNone)

\* the parameter loop of the wrappers
BindParams(params, args, i, st) ==
    IF i > Len(params) THEN Ok(st, PyNone)
    ELSE Let(_declare_variable(st, params[i][1], args[i], params[i][2], FALSE),
             LAMBDA d : IF d.k = "raise" THEN d ELSE BindParams(params, args, i + 1, d.st))

\* zisk_function_wrapper, were the value carried by `retorna` dropped
WrapperDropsReturnValue(f, args_values, st) ==
    Let([enter_scope(st) EXCEPT !.is_in_function = @ + 1], LAMBDA st1 :
    IF Len(args_values) # Len(f.params)
    THEN Raise(st1, ZiskRuntimeError("esperaba argumentos"))
    ELSE Let(BindParams(f.params, args_values, 1, st1), LAMBDA b :
    IF b.k = "raise" THEN b
    ELSE Let(execute(f.body, b.st), LAMBDA r :
    LET returned == r.k = "raise" /\ r.v.cls = "ReturnException"
        return_value == PyNone
    IN  \* the finally clause around the body
    Let(exit_scope([r.st EXCEPT !.is_in_function = @ - 1]), LAMBDA st2 :
    IF r.k = "raise" /\ ~returned THEN Raise(st2, r.v)
    ELSE Let(validate_assignment(return_value, f.ret, class_hierarchy_of(st2)), LAMBDA va :
    IF va[1] = "raise" THEN Raise(st2, va[2])
    ELSE Ok(st2, return_value))))))

\* zisk_function_wrapper(*args_values) of the function value f
zisk_function_wrapper(f, args_values, st) ==
    Let([enter_scope(st) EXCEPT !.is_in_function = @ + 1], LAMBDA st1 :
    IF Len(args_values) # Len(f.params)
    THEN Raise(st1, ZiskRuntimeError("esperaba argumentos"))
    ELSE Let(BindParams(f.params, args_values, 1, st1), LAMBDA b :
    IF b.k = "raise" THEN b
    ELSE Let(execute(f.body, b.st), LAMBDA r :
    LET returned == r.k = "raise" /\ r.v.cls = "ReturnException"
        return_value == IF returned THEN r.v.value ELSE PyNone
    IN  \* the finally clause around the body
    Let(exit_scope([r.st EXCEPT !.is_in_function = @ - 1]), LAMBDA st2 :
    IF r.k = "raise" /\ ~returned THEN Raise(st2, r.v)
    ELSE Let(validate_assignment(return_value, f.ret, class_hierarchy_of(st2)), LAMBDA va :
    IF va[1] = "raise" THEN Raise(st2, va[2])
    ELSE Ok(st2, return_value))))))

\* callable(callee_val)
Callable(v) == v.py \in {"function", "method", "type"}
\* getattr(callee_val, '_zisk_params', None) and '_zisk_return_type': a bound
\* method answers with the attributes of its function, a class has none
ZiskParams(v) ==
    CASE v.py = "function" -> v.params
      [] v.py = "method" -> v.func.params
      [] OTHER -> <<>>
ZiskReturnType(v) ==
    CASE v.py = "function" -> v.ret
      [] v.py = "method" -> v.func.ret
      [] OTHER -> NoName

\* the test on the message of a TypeError that the call itself raised
CallTypeErrorMatches(e) == e.msg \in {"required positional arguments", "takes but"}

ExecLlamada(node, st) ==
    Let(EvalArgs(node[3], st, <<>>), LAMBDA a :
    IF a.k = "raise" THEN a
    ELSE Let(execute(node[2], a.st), LAMBDA c :
    IF c.k = "raise" THEN c
    ELSE IF ~Callable(c.v) THEN Raise(c.st, ZiskTypeError("no es llamable"))
    ELSE Let(IF ZiskParams(c.v) # <<>>
             THEN validate_function_call(a.v, ZiskParams(c.v), class_hierarchy_of(c.st))
             ELSE <<"ok">>, LAMBDA vc :
    IF vc[1] = "raise" THEN Raise(c.st, vc[2])
    ELSE Let(CallValue(c.v, a.v, c.st), LAMBDA r :
    IF r.k = "raise" /\ r.v.cls = "TypeError" /\ CallTypeErrorMatches(r.v)
    THEN Raise(r.st, ZiskRuntimeError("Error al llamar"))
    ELSE IF r.k = "raise" THEN r
    ELSE Let(validate_assignment(r.v, ZiskReturnType(c.v), class_hierarchy_of(r.st)), LAMBDA vr :
    IF vr[1] = "raise" THEN Raise(r.st, vr[2])
    ELSE r)))))

\* LLAMADA_NATIVA of `mostrar`: print(*arg_values) appends one line to out
ExecLlamadaNativa(node, st) ==
    Let(EvalArgs(node[3], st, <<>>), LAMBDA a :
    IF a.k = "raise" THEN a
    ELSE Ok([a.st EXCEPT !.out = Append(@, a.v)], PyNone))

\* zisk_method_wrapper(*args_py) of the method f: the receiver is args_py[0]
\* unless the method is static
zisk_method_wrapper(f, args_py, st) ==
    IF ~f.static /\ args_py = <<>>
    THEN Raise(st, ZiskRuntimeError("llamado incorrectamente"))
    ELSE LET self_zisk_instance == IF f.static THEN None ELSE args_py[1]
             actual_args_zisk == IF f.static THEN args_py ELSE Tail(args_py)
         IN
    Let([enter_scope(st) EXCEPT !.is_in_function = @ + 1,
                                !.current_self = IF f.static THEN @ ELSE self_zisk_instance],
        LAMBDA st1 :
    IF Len(actual_args_zisk) # Len(f.params)
    THEN Raise(st1, ZiskRuntimeError("esperaba argumentos"))
    ELSE Let(BindParams(f.params, actual_args_zisk, 1, st1), LAMBDA b :
    IF b.k = "raise" THEN b
    ELSE Let(execute(f.body, b.st), LAMBDA r :
    LET returned == r.k = "raise" /\ r.v.cls = "ReturnException"
        return_value == IF returned THEN r.v.value ELSE PyNone
    IN  \* the finally clause around the body
    Let([exit_scope(r.st) EXCEPT !.is_in_function = @ - 1, !.current_self = None], LAMBDA st2 :
    IF r.k = "raise" /\ ~returned THEN Raise(st2, r.v)
    ELSE Let(validate_assignment(return_value, f.ret, class_hierarchy_of(st2)), LAMBDA va :
    IF va[1] = "raise" THEN Raise(st2, va[2])
    ELSE Ok(st2, return_value))))))

\* setattr(self_py, f_name, f_val_inicial) for every field, in order
RECURSIVE SetFields(_, _)
SetFields(dict, instance_fields_init) ==
    IF instance_fields_init = <<>> THEN dict
    ELSE SetFields(Put(dict, Head(instance_fields_init)[1], Head(instance_fields_init)[2]),
                   Tail(instance_fields_init))

\* generated_init(self_py, *args_constr) of the class object at init
generated_init(init, self_py, args_constr, st) ==
    Let([st EXCEPT !.heap[self_py.at].dict = SetFields(@, st.heap[init].instance_fields_init)],
        LAMBDA st1 :
    IF "constructor" \in DOMAIN st1.heap[init].attrs
       /\ st1.heap[init].attrs["constructor"].py \in {"function", "method", "type"}
    THEN CallValue(GetAttr(st1, self_py, "constructor")[1], args_constr, st1)
    ELSE Ok(st1, PyNone))

\* target_class_py(*arg_values): a new instance, then the __init__ its class
\* finds; object.__init__ takes no arguments
Instantiate(target_class_py, arg_values, st) ==
    Let(New(st, InstanceObject(target_class_py.at, EmptyFrame)), LAMBDA st1 :
    LET instance == PyObject(st1.heap[target_class_py.at].name, Len(st1.heap))
        init == FindInit(st1.heap, target_class_py.at)
    IN  IF init = 0
        THEN IF arg_values # <<>> THEN Raise(st1, PyExc("TypeError", "takes no arguments"))
             ELSE Ok(st1, instance)
        ELSE Let(generated_init(init, instance, arg_values, st1), LAMBDA r :
             IF r.k = "raise" THEN r ELSE Ok(r.st, instance)))

\* callee_val(*arg_values)
CallValue(callee_val, arg_values, st) ==
    CASE callee_val.py = "method" ->
            CallValue(callee_val.func, <<callee_val.self>> \o arg_values, st)
      [] callee_val.py = "type" -> Instantiate(callee_val, arg_values, st)
      [] callee_val.py = "function" /\ "static" \in DOMAIN callee_val ->
            zisk_method_wrapper(callee_val, arg_values, st)
      [] OTHER -> zisk_function_wrapper(callee_val, arg_values, st)

\* the member loop of execute (CLASE): acc holds class_attrs and
\* instance_fields_init
ClassMembers(class_name_zisk, miembros_nodos, st, acc) ==
    IF miembros_nodos = <<>> THEN Ok(st, acc)
    ELSE LET miembro_nodo == Head(miembros_nodos)
             m_type == miembro_nodo[1]
             rest == Tail(miembros_nodos)
         IN
    CASE m_type = "DECLARACION_VAR_MIEMBRO" ->
            Let(execute(miembro_nodo[4], st), LAMBDA m_val :
            IF m_val.k = "raise" THEN m_val
            ELSE IF miembro_nodo[5]
            THEN ClassMembers(class_name_zisk, rest, m_val.st,
                              [acc EXCEPT !.class_attrs = Put(@, miembro_nodo[2], m_val.v)])
            ELSE ClassMembers(class_name_zisk, rest, m_val.st,
                              [acc EXCEPT !.instance_fields_init =
                                  Append(@, <<miembro_nodo[2], m_val.v, miembro_nodo[3]>>)]))
      [] m_type = "DECLARACION_CONST_MIEMBRO" ->
            Let(execute(miembro_nodo[4], st), LAMBDA m_val :
            IF m_val.k = "raise" THEN m_val
            ELSE ClassMembers(class_name_zisk, rest, m_val.st,
                              [acc EXCEPT !.class_attrs = Put(@, miembro_nodo[2], m_val.v)]))
      [] m_type = "METODO" ->
            ClassMembers(class_name_zisk, rest,
                         [st EXCEPT !.method_signatures = @ \cup {<<class_name_zisk, miembro_nodo[2]>>}],
                         [acc EXCEPT !.class_attrs =
                             Put(@, miembro_nodo[2],
                                 PyMethod(miembro_nodo[2], miembro_nodo[3], miembro_nodo[4],
                                          miembro_nodo[5], miembro_nodo[6]))])
      [] OTHER -> ClassMembers(class_name_zisk, rest, st, acc)

\* execute (CLASE): st.classes holds the keys of self.classes and
\* st.class_objects the class object of each
ExecClase(node, st) ==
    Let(ClassMembers(node[2], node[4], st,
                     [class_attrs |-> Put(EmptyFrame, "_zisk_classname", PyStr(node[2])),
                      instance_fields_init |-> <<>>]), LAMBDA m :
    IF m.k = "raise" THEN m
    ELSE IF node[3] # NoName /\ node[3] \notin m.st.classes
    THEN Raise(m.st, ZiskRuntimeError("Clase padre no definida"))
    ELSE Let(New(m.st, ClassObject(node[2],
                                   IF node[3] # NoName THEN m.st.class_objects[node[3]] ELSE 0,
                                   m.v.class_attrs,
                                   m.v.instance_fields_init # <<>>
                                       \/ "constructor" \notin DOMAIN m.v.class_attrs,
                                   m.v.instance_fields_init)), LAMBDA st1 :
         Ok([st1 EXCEPT !.classes = @ \cup {node[2]},
                        !.class_objects = Put(@, node[2], Len(st1.heap)),
                        !.class_hierarchy = Put(@, node[2], node[3])], PyNone)))

\* execute (CONSTRUCTOR)
ExecConstructor(node, st) ==
    IF node[2] \notin st.classes THEN Raise(st, ZiskRuntimeError("Clase no definida"))
    ELSE LET target_class_py == PyClassAt(node[2], st.class_objects[node[2]]) IN
    Let(EvalArgs(node[3], st, <<>>), LAMBDA a :
    IF a.k = "raise" THEN a
    ELSE Let(ClassLookup(a.st.heap, target_class_py.at, "constructor"),
             LAMBDA constructor_zisk_method :
    Let(IF constructor_zisk_method # <<>> /\ Truthy(constructor_zisk_method[1])
        THEN ZiskParams(constructor_zisk_method[1]) ELSE <<>>, LAMBDA constructor_sig_params :
    Let(IF constructor_sig_params # <<>>
        THEN validate_function_call(a.v, constructor_sig_params, class_hierarchy_of(a.st))
        ELSE <<"ok">>, LAMBDA vc :
    IF vc[1] = "raise" THEN Raise(a.st, vc[2])
    ELSE Let(Instantiate(target_class_py, a.v, a.st), LAMBDA r :
    IF r.k = "raise" THEN Raise(r.st, ZiskRuntimeError("Error al construir instancia"))
    ELSE r)))))

\* execute (ESTE)
ExecEste(node, st) ==
    IF st.current_self = None
    THEN Raise(st, ZiskRuntimeError("'este' no esta definido"))
    ELSE Ok(st, st.current_self)

\* execute (LISTA_LITERAL) and (OBJETO_LITERAL): a new list, a new dictionary
ExecListaLiteral(node, st) ==
    Let(EvalArgs(node[2], st, <<>>), LAMBDA a :
    IF a.k = "raise" THEN a
    ELSE Ok(New(a.st, ListObject(a.v)), PyListAt(Len(a.st.heap) + 1)))

EvalProperties(propiedades, st, obj_dict) ==
    IF propiedades = <<>> THEN Ok(st, obj_dict)
    ELSE Let(execute(Head(propiedades)[2], st), LAMBDA r :
         IF r.k = "raise" THEN r
         ELSE EvalProperties(Tail(propiedades), r.st, Put(obj_dict, Head(propiedades)[1], r.v)))

ExecObjetoLiteral(node, st) ==
    Let(EvalProperties(node[2], st, EmptyFrame), LAMBDA a :
    IF a.k = "raise" THEN a
    ELSE Ok(New(a.st, DictObject(a.v)), PyDictAt(Len(a.st.heap) + 1)))

\* execute (ACCESO_MIEMBRO)
ExecAccesoMiembro(node, st) ==
    Let(execute(node[2], st), LAMBDA o :
    IF o.k = "raise" THEN o
    ELSE LET obj_val == o.v
             member_name == node[3]
         IN
    CASE obj_val.py = "ZiskREPL" ->
            Let(_get_variable_value(o.st.modules[obj_val.name], member_name), LAMBDA r :
            IF r.k = "raise" THEN Raise(o.st, ZiskAttributeError("Modulo no tiene el miembro"))
            ELSE Ok(o.st, r.v))
      [] obj_val.py = "dict" ->
            IF member_name \notin DOMAIN o.st.heap[obj_val.at].dict
            THEN Raise(o.st, ZiskAttributeError("no tiene la propiedad"))
            ELSE Ok(o.st, o.st.heap[obj_val.at].dict[member_name])
      [] obj_val.py \in {"instance", "type"} ->
            Let(GetAttr(o.st, obj_val, member_name), LAMBDA attr_val :
            IF attr_val = <<>> THEN Raise(o.st, ZiskAttributeError("no tiene la propiedad"))
            ELSE Ok(o.st, attr_val[1])))

\* execute (ACCESO_INDICE) on a list or a dictionary; every key of a
\* dictionary is a string
ExecAccesoIndice(node, st) ==
    Let(execute(node[2], st), LAMBDA c :
    IF c.k = "raise" THEN c
    ELSE Let(execute(node[3], c.st), LAMBDA i :
    IF i.k = "raise" THEN i
    ELSE LET collection == c.v
             index == i.v
         IN
    CASE collection.py = "list" ->
            IF ~IsInstance(index, "int")
            THEN Raise(i.st, ZiskTypeError("Indice de lista debe ser entero"))
            ELSE IF ~(0 <= Num(index) /\ Num(index) < Len(i.st.heap[collection.at].items))
            THEN Raise(i.st, ZiskIndexError("fuera de rango"))
            ELSE Ok(i.st, i.st.heap[collection.at].items[Num(index) + 1])
      [] collection.py = "dict" ->
            IF index.py \in {"list", "dict"}
            THEN Raise(i.st, PyExc("TypeError", "unhashable type"))
            ELSE IF index.py = "str" /\ index.v \in DOMAIN i.st.heap[collection.at].dict
            THEN Ok(i.st, i.st.heap[collection.at].dict[index.v])
            ELSE Raise(i.st, ZiskKeyError("Clave no encontrada"))
      [] collection.py \notin {"list", "dict", "str"} ->
            Raise(i.st, ZiskTypeError("no soporta acceso por indice"))))

\* what a module's ZiskREPL keeps for itself
ModuleOf(st) ==
    [scopes |-> st.scopes, functions |-> st.functions, classes |-> st.classes,
     modules |-> st.modules, class_objects |-> st.class_objects]

\* execute (IMPORTA): the module runs in a ZiskREPL of its own, which shares
\* the Type System (and the standard output) of the importer
ExecImporta(node, st) ==
    LET module_name_eff == IF node[3] # NoName THEN node[3] ELSE PathName(node[2])
        file_to_load == PathFile(node[2])
    IN
    IF module_name_eff \in DOMAIN st.modules THEN Ok(st, PyNone)
    ELSE IF file_to_load \notin DOMAIN Files
    THEN Raise(st, ZiskRuntimeError("No se pudo encontrar el modulo"))
    ELSE Let(evaluate(Files[file_to_load], TRUE,
                      [REPLState(<<EmptyFrame>>, EmptyFrame, {}, EmptyFrame, 0, 0,
                                 st.class_hierarchy, st.out)
                          EXCEPT !.method_signatures = st.method_signatures, !.heap = st.heap],
                      <<EmptyFrame>>), LAMBDA m :
    Let([st EXCEPT !.class_hierarchy = m.st.class_hierarchy, !.out = m.st.out,
                   !.method_signatures = m.st.method_signatures, !.heap = m.st.heap],
        LAMBDA st1 :
    IF m.k = "raise" THEN Raise(st1, ZiskRuntimeError("Error al importar modulo"))
    ELSE Let([st1 EXCEPT !.modules = Put(@, module_name_eff, ModuleOf(m.st))], LAMBDA st2 :
    Let(_declare_variable(st2, module_name_eff, PyModule(module_name_eff), "objeto", FALSE),
        LAMBDA d :
    IF d.k = "raise" THEN Raise(d.st, ZiskRuntimeError("Error al importar modulo"))
    ELSE Ok(d.st, PyNone)))))

ExecSi(node, st) ==
    Let(execute(node[2], st), LAMBDA c :
    IF c.k = "raise" THEN c
    ELSE IF Truthy(c.v) THEN execute(node[3], c.st)
    ELSE IF node[4] # None THEN execute(node[4], c.st)
    ELSE Ok(c.st, PyNone))

\* Loops thread the local variable `result`; a loop result carries it so
\* that the handler of BreakException can return it.
LoopOk(st, result) == [st |-> st, k |-> "ok", v |-> result, result |-> result]
LoopRaise(st, e, result) == [st |-> st, k |-> "raise", v |-> e, result |-> result]

\* a variant of LoopExit whose `except BreakException` clause is missing, so
\* that the signal goes on to the enclosing loop
LoopExitPropagatesBreak(l, st) ==
    IF l.k = "raise" THEN Raise(st, l.v)
    ELSE Ok(st, l.result)

\* what follows the loop statement: BreakException is swallowed, `result` returned
LoopExit(l, st) ==
    IF l.k = "raise" /\ l.v.cls # "BreakException" THEN Raise(st, l.v)
    ELSE Ok(st, l.result)

\* a variant of MientrasLoop in which ContinueException ends the loop
MientrasLoopContinueEnds(node, st, result) ==
    Let(execute(node[2], st), LAMBDA c :
    IF c.k = "raise" THEN LoopRaise(c.st, c.v, result)
    ELSE IF ~Truthy(c.v) THEN LoopOk(c.st, result)
    ELSE Let(execute(node[3], c.st), LAMBDA b :
    IF b.k = "raise" /\ b.v.cls = "ContinueException" THEN LoopOk(b.st, result)
    ELSE IF b.k = "raise" THEN LoopRaise(b.st, b.v, result)
    ELSE MientrasLoop(node, b.st, b.v)))

MientrasLoop(node, st, result) ==
    Let(execute(node[2], st), LAMBDA c :
    IF c.k = "raise" THEN LoopRaise(c.st, c.v, result)
    ELSE IF ~Truthy(c.v) THEN LoopOk(c.st, result)
    ELSE Let(execute(node[3], c.st), LAMBDA b :
    IF b.k = "raise" /\ b.v.cls = "ContinueException"
    THEN MientrasLoop(node, b.st, result)
    ELSE IF b.k = "raise" THEN LoopRaise(b.st, b.v, result)
    ELSE MientrasLoop(node, b.st, b.v)))

ExecMientras(node, st) ==
    Let(MientrasLoop(node, [st EXCEPT !.is_in_loop = @ + 1], PyNone),
        LAMBDA l : LoopExit(l, [l.st EXCEPT !.is_in_loop = @ - 1]))

ParaLoop(node, st, result) ==
    Let(IF node[3] # None THEN execute(node[3], st) ELSE Ok(st, PyBool(TRUE)), LAMBDA c :
    IF c.k = "raise" THEN LoopRaise(c.st, c.v, result)
    ELSE IF ~Truthy(c.v) THEN LoopOk(c.st, result)
    ELSE Let(execute(node[5], c.st), LAMBDA b :
    LET continued == b.k = "raise" /\ b.v.cls = "ContinueException"
        result1 == IF continued THEN result ELSE b.v
    IN
    IF b.k = "raise" /\ ~continued THEN LoopRaise(b.st, b.v, result)
    ELSE Let(IF node[4] # None THEN execute(node[4], b.st) ELSE Ok(b.st, PyNone), LAMBDA u :
    IF u.k = "raise" THEN LoopRaise(u.st, u.v, result1)
    ELSE ParaLoop(node, u.st, result1))))

ExecPara(node, st) ==
    Let([enter_scope(st) EXCEPT !.is_in_loop = @ + 1], LAMBDA st1 :
    Let(IF node[2] # None THEN execute(node[2], st1) ELSE Ok(st1, PyNone), LAMBDA i :
    Let(IF i.k = "raise" THEN LoopRaise(i.st, i.v, PyNone)
        ELSE ParaLoop(node, i.st, PyNone), LAMBDA l :
    LoopExit(l, exit_scope([l.st EXCEPT !.is_in_loop = @ - 1])))))

HacerMientrasLoop(node, st, result) ==
    Let(execute(node[2], st), LAMBDA b :
    LET continued == b.k = "raise" /\ b.v.cls = "ContinueException"
        result1 == IF continued THEN result ELSE b.v
    IN
    IF b.k = "raise" /\ ~continued THEN LoopRaise(b.st, b.v, result)
    ELSE Let(execute(node[3], b.st), LAMBDA c :
    IF c.k = "raise" THEN LoopRaise(c.st, c.v, result1)
    ELSE IF ~Truthy(c.v) THEN LoopOk(c.st, result1)
    ELSE HacerMientrasLoop(node, c.st, result1)))

ExecHacerMientras(node, st) ==
    Let(HacerMientrasLoop(node, [st EXCEPT !.is_in_loop = @ + 1], PyNone),
        LAMBDA l : LoopExit(l, [l.st EXCEPT !.is_in_loop = @ - 1]))

ExecRetorna(node, st) ==
    IF st.is_in_function = 0
    THEN Raise(st, ZiskRuntimeError("'retorna' solo puede usarse dentro de una funcion"))
    ELSE Let(IF node[2] # None THEN execute(node[2], st) ELSE Ok(st, PyNone),
             LAMBDA r : IF r.k = "raise" THEN r ELSE Raise(r.st, ReturnException(r.v)))

ExecBreak(node, st) ==
    IF st.is_in_loop = 0
    THEN Raise(st, ZiskRuntimeError("'break' solo puede usarse dentro de un bucle"))
    ELSE Raise(st, BreakException)

ExecContinua(node, st) ==
    IF st.is_in_loop = 0
    THEN Raise(st, ZiskRuntimeError("'continua' solo puede usarse dentro de un bucle"))
    ELSE Raise(st, ContinueException)

\* the body of both handlers of TRY_CATCH that run the catch block
CatchClause(st, err_var_name, error_obj, catch_b) ==
    Let(_declare_variable(enter_scope(st), err_var_name, error_obj, "objeto", FALSE), LAMBDA d :
    IF d.k = "raise" THEN d
    ELSE Let(execute(catch_b, d.st), LAMBDA c : [c EXCEPT !.st = exit_scope(@)]))

\* a variant of TryExcept without the three clauses that re-raise the
\* control-transfer signals, which then reach `except Exception`
TryExceptCatchesControl(t, err_var_name, catch_b) ==
    IF IsZiskError(t.v)
    THEN IF catch_b # None /\ err_var_name # NoName
         THEN CatchClause(t.st, err_var_name, t.v, catch_b)
         ELSE t
    ELSE IF catch_b # None /\ err_var_name # NoName
         THEN CatchClause(t.st, err_var_name, ZiskRuntimeError("Excepcion Python"), catch_b)
         ELSE Raise(t.st, ZiskRuntimeError("Error no capturado"))

\* the except clauses of TRY_CATCH, applied to a try block that raised
TryExcept(t, err_var_name, catch_b) ==
    IF t.v.cls \in ControlClasses THEN t
    ELSE IF IsZiskError(t.v)
    THEN IF catch_b # None /\ err_var_name # NoName
         THEN CatchClause(t.st, err_var_name, t.v, catch_b)
         ELSE t
    ELSE IF catch_b # None /\ err_var_name # NoName
         THEN CatchClause(t.st, err_var_name, ZiskRuntimeError("Excepcion Python"), catch_b)
         ELSE Raise(t.st, ZiskRuntimeError("Error no capturado"))

\* a variant of TryFinally that runs the finally block only when nothing is
\* propagating
TryFinallyOnlyOnSuccess(h, finally_b) ==
    IF finally_b = None \/ h.k = "raise" THEN h
    ELSE Let(execute(finally_b, h.st),
             LAMBDA f : IF f.k = "raise" THEN f ELSE [h EXCEPT !.st = f.st])

\* the finally clause of TRY_CATCH, applied to the outcome h of try and handlers
TryFinally(h, finally_b) ==
    IF finally_b = None THEN h
    ELSE Let(execute(finally_b, h.st),
             LAMBDA f : IF f.k = "raise" THEN f ELSE [h EXCEPT !.st = f.st])

\* a variant of ExecTryCatch in which what was propagating out of the try
\* and catch part survives a finally block that raises
ExecTryCatchKeepsPending(node, st) ==
    Let(execute(node[2], st), LAMBDA t :
    Let(IF t.k = "raise" THEN TryExcept(t, node[3], node[4]) ELSE t, LAMBDA h :
    Let(TryFinally(h, node[5]), LAMBDA f :
    IF h.k = "raise" THEN [h EXCEPT !.st = f.st] ELSE f)))

ExecTryCatch(node, st) ==
    Let(execute(node[2], st), LAMBDA t :
    Let(IF t.k = "raise" THEN TryExcept(t, node[3], node[4]) ELSE t, LAMBDA h :
    TryFinally(h, node[5])))

\* _get_lvalue_location for an identifier target: v is the index of the
\* innermost frame holding the name.  The raise for an undefined name reads
\* lhs_node[2] and lhs_node[3], which an ('IDENTIFICADOR', name) node lacks.
_get_lvalue_location(lhs_node, st) ==
    CASE lhs_node[1] = "IDENTIFICADOR" ->
            LET i == FindScope(st.scopes, lhs_node[2])
            IN  IF i # 0
                THEN Ok(st, [kind |-> "scope", at |-> i, key |-> lhs_node[2],
                             is_list_element |-> FALSE])
                ELSE IF Len(lhs_node) < 4
                THEN Raise(st, PyExc("IndexError", "tuple index out of range"))
                ELSE Raise(st, ZiskRuntimeError("no definida para asignacion"))
      [] lhs_node[1] = "ACCESO_MIEMBRO" ->
            Let(execute(lhs_node[2], st), LAMBDA o :
            IF o.k = "raise" THEN o
            ELSE IF o.v.py = "dict"
            THEN Ok(o.st, [kind |-> "dict", at |-> o.v.at, key |-> lhs_node[3],
                           is_list_element |-> FALSE])
            \* hasattr(obj, '__dict__')
            ELSE IF o.v.py \in {"instance", "type", "function", "method", "ZiskREPL"}
            THEN Ok(o.st, [kind |-> "object", at |-> o.v, key |-> lhs_node[3],
                           is_list_element |-> FALSE])
            ELSE Raise(o.st, ZiskRuntimeError("tipo no objetual")))
      [] lhs_node[1] = "ACCESO_INDICE" ->
            Let(execute(lhs_node[2], st), LAMBDA c :
            IF c.k = "raise" THEN c
            ELSE Let(execute(lhs_node[3], c.st), LAMBDA i :
            IF i.k = "raise" THEN i
            ELSE IF c.v.py = "list"
            THEN IF ~IsInstance(i.v, "int")
                 THEN Raise(i.st, ZiskTypeError("El indice de la lista debe ser un entero"))
                 ELSE Ok(i.st, [kind |-> "list", at |-> c.v.at, key |-> StrOf(i.v),
                                is_list_element |-> TRUE])
            ELSE IF c.v.py = "dict"
            THEN Ok(i.st, [kind |-> "dict", at |-> c.v.at, key |-> StrOf(i.v),
                           is_list_element |-> FALSE])
            ELSE Raise(i.st, ZiskTypeError("Solo listas o diccionarios"))))
      [] OTHER -> Raise(st, ZiskRuntimeError("Lado izquierdo de asignacion no valido"))

\* lvalue_container.get(key_or_name) on a frame: the stored pair (value, meta)
ScopeTuple(entry) ==
    PyTuple(<<entry.value, [py |-> "dict", is_const |-> entry.is_const, type |-> entry.type]>>)

\* final_value_to_assign: <<"ok", value>> or <<"raise", exc>>
CompoundValue(op_str, current_value, rhs_value) ==
    CASE op_str = "+=" -> PyArith("+", current_value, rhs_value)
      [] op_str = "-=" -> PyArith("-", current_value, rhs_value)
      [] op_str = "*=" -> PyArith("*", current_value, rhs_value)
      [] op_str = "/=" -> IF IsZero(rhs_value)
                          THEN <<"raise", ZiskRuntimeError("Division por cero en asignacion")>>
                          ELSE PyArith("/", current_value, rhs_value)
      [] op_str = "%=" -> IF IsZero(rhs_value)
                          THEN <<"raise", ZiskRuntimeError("Modulo por cero en asignacion")>>
                          ELSE PyArith("%", current_value, rhs_value)
      [] OTHER -> <<"ok", rhs_value>>

\* the write of ASIGNACION to an identifier target held by frame i
AssignIdentifier(st, i, name, final_value_to_assign) ==
    LET original_type_of_lvalue == st.scopes[i][name].type
        ch == class_hierarchy_of(st)
    IN  Let(validate_assignment(final_value_to_assign, original_type_of_lvalue, ch), LAMBDA va :
        IF va[1] = "raise" THEN Raise(st, va[2])
        ELSE Ok([st EXCEPT !.scopes[i] =
                    Put(@, name, Entry(final_value_to_assign, FALSE,
                                       IF original_type_of_lvalue # NoName
                                       THEN original_type_of_lvalue
                                       ELSE infer_type(final_value_to_assign, ch)))],
                final_value_to_assign))

\* int(key_or_name) of the index of a list element: <<"ok", idx>> or the
\* ValueError of int("True")
IntOf(key_or_name) ==
    IF key_or_name \in {"True", "False"}
    THEN <<"raise", PyExc("ValueError", "invalid literal for int()")>>
    ELSE <<"ok", CHOOSE idx \in -MaxIndex..MaxIndex : ToString(idx) = key_or_name>>

\* current_value of a compound operator: <<"ok", value>> or <<"raise", exc>>
CurrentValue(st, loc) ==
    IF loc.is_list_element
    THEN Let(IntOf(loc.key), LAMBDA idx :
         IF idx[1] = "raise" THEN idx
         ELSE IF 0 <= idx[2] /\ idx[2] < Len(st.heap[loc.at].items)
         THEN <<"ok", st.heap[loc.at].items[idx[2] + 1]>>
         ELSE <<"raise", ZiskRuntimeError("fuera de rango para la lista")>>)
    ELSE IF loc.kind = "scope" THEN <<"ok", ScopeTuple(st.scopes[loc.at][loc.key])>>
    ELSE IF loc.kind = "dict"
    THEN <<"ok", IF loc.key \in DOMAIN st.heap[loc.at].dict THEN st.heap[loc.at].dict[loc.key]
                 ELSE PyNone>>
    ELSE <<"ok", PyNone>>

\* the write of ASIGNACION to a list element, to a dictionary, or to an
\* object that is neither: no branch of the chain writes an instance
AssignElement(st, loc, op_str, final_value_to_assign) ==
    IF loc.is_list_element
    THEN Let(IntOf(loc.key), LAMBDA idx :
         IF idx[1] = "raise" THEN Raise(st, idx[2])
         ELSE IF 0 <= idx[2] /\ idx[2] < Len(st.heap[loc.at].items)
         THEN Ok([st EXCEPT !.heap[loc.at].items[idx[2] + 1] = final_value_to_assign],
                 final_value_to_assign)
         ELSE IF idx[2] = Len(st.heap[loc.at].items) /\ op_str = "="
         THEN Ok([st EXCEPT !.heap[loc.at].items = Append(@, final_value_to_assign)],
                 final_value_to_assign)
         ELSE Raise(st, ZiskRuntimeError("fuera de rango para asignacion a lista")))
    ELSE IF loc.kind = "dict"
    THEN Ok([st EXCEPT !.heap[loc.at].dict = Put(@, loc.key, final_value_to_assign)],
            final_value_to_assign)
    ELSE Ok(st, final_value_to_assign)

ExecAsignacion(node, st) ==
    Let(execute(node[4], st), LAMBDA r :
    IF r.k = "raise" THEN r
    ELSE Let(_get_lvalue_location(node[3], r.st), LAMBDA loc :
    IF loc.k = "raise" THEN loc
    ELSE Let(IF node[2] # "=" THEN CurrentValue(loc.st, loc.v) ELSE <<"ok", PyNone>>,
             LAMBDA current_value :
    IF current_value[1] = "raise" THEN Raise(loc.st, current_value[2])
    ELSE IF current_value[2] = PyNone /\ node[2] # "="
    THEN Raise(loc.st, ZiskRuntimeError("no tiene valor inicial"))
    ELSE Let(CompoundValue(node[2], current_value[2], r.v), LAMBDA c :
    IF c[1] = "raise" THEN Raise(loc.st, c[2])
    ELSE IF node[3][1] = "IDENTIFICADOR"
    THEN AssignIdentifier(loc.st, loc.v.at, loc.v.key, c[2])
    ELSE AssignElement(loc.st, loc.v, node[2], c[2])))))

\* the operator dispatch inside the try of OPERACION_*
BinaryOp(op, lhs_val, rhs_val) ==
    Let(IF op \in {"+", "-", "*", "/", "%"} THEN PyArith(op, lhs_val, rhs_val)
        ELSE <<"ok", PyNone>>, LAMBDA a :
    Let(IF op \in {"==", "!=", "<", ">", "<=", ">="} THEN PyCompare(op, lhs_val, rhs_val)
        ELSE <<"ok", PyNone>>, LAMBDA c :
    CASE op \in {"+", "-", "*"} ->
            IF a[1] = "raise" THEN <<"raise", ZiskTypeError("Error de tipo en operacion")>> ELSE a
      [] op = "/" ->
            IF IsZero(rhs_val) THEN <<"raise", ZiskRuntimeError("Division por cero")>>
            ELSE IF a[1] = "raise" THEN <<"raise", ZiskTypeError("Error de tipo en operacion")>>
            ELSE a
      [] op = "%" ->
            IF IsZero(rhs_val) THEN <<"raise", ZiskRuntimeError("Modulo por cero")>>
            ELSE IF a[1] = "raise" THEN <<"raise", ZiskTypeError("Error de tipo en operacion")>>
            ELSE a
      [] op \in {"==", "!=", "<", ">", "<=", ">="} ->
            IF c[1] = "raise" THEN <<"raise", ZiskTypeError("Error de tipo en operacion")>> ELSE c
      [] op = "&&" -> <<"ok", IF Truthy(lhs_val) THEN rhs_val ELSE lhs_val>>
      [] op = "||" -> <<"ok", IF Truthy(lhs_val) THEN lhs_val ELSE rhs_val>>
      [] OTHER -> <<"ok", PyNone>>))

\* the operand test that precedes the dispatch for OPERACION_ARITMETICA
ArithmeticOperandsOk(op, lhs_val, rhs_val) ==
    \/ IsNumber(lhs_val) /\ IsNumber(rhs_val)
    \/ op = "+" /\ lhs_val.py = "str" /\ rhs_val.py = "str"
    \/ op = "*" /\ (\/ lhs_val.py = "str" /\ IsInt(rhs_val)
                    \/ IsInt(lhs_val) /\ rhs_val.py = "str")

ExecOperacion(node, st) ==
    LET op == node[2] IN
    Let(execute(node[3], st), LAMBDA l :
    IF l.k = "raise" THEN l
    ELSE IF node[1] = "OPERACION_LOGICA" /\ op = "&&" /\ ~Truthy(l.v)
    THEN Ok(l.st, PyBool(FALSE))
    ELSE IF node[1] = "OPERACION_LOGICA" /\ op = "||" /\ Truthy(l.v)
    THEN Ok(l.st, PyBool(TRUE))
    ELSE Let(execute(node[4], l.st), LAMBDA r :
    IF r.k = "raise" THEN r
    ELSE IF node[1] = "OPERACION_ARITMETICA" /\ ~ArithmeticOperandsOk(op, l.v, r.v)
    THEN Raise(r.st, ZiskTypeError("requiere operandos numericos"))
    ELSE Let(BinaryOp(op, l.v, r.v), LAMBDA b :
    IF b[1] = "raise" THEN Raise(r.st, b[2])
    ELSE Ok(r.st, b[2]))))

ExecOperacionUnaria(node, st) ==
    Let(execute(node[3], st), LAMBDA o :
    IF o.k = "raise" THEN o
    ELSE IF node[2] = "-"
    THEN IF ~IsNumber(o.v)
         THEN Raise(o.st, ZiskTypeError("Operador unario '-' requiere operando numerico"))
         ELSE Ok(o.st, PyArith("-", PyInt(0), o.v)[2])
    ELSE IF node[2] = "!" THEN Ok(o.st, PyBool(~Truthy(o.v)))
    ELSE Ok(o.st, PyNone))

\* execute(ast_node) in state st: Ok(st', value) or Raise(st', exception)
execute(ast_node, st) ==
    IF ast_node = None THEN Ok(st, PyNone)
    ELSE LET node_type == ast_node[1] IN
    CASE node_type = "PROGRAMA" -> ExecPrograma(ast_node, st)
      [] node_type = "BLOQUE" -> ExecBloque(ast_node, st)
      [] node_type = "DECLARACION_VAR" -> ExecDeclaracionVar(ast_node, st)
      [] node_type = "DECLARACION_CONST" -> ExecDeclaracionConst(ast_node, st)
      [] node_type = "FUNCION" -> ExecFuncion(ast_node, st)
      [] node_type = "CLASE" -> ExecClase(ast_node, st)
      [] node_type = "IMPORTA" -> ExecImporta(ast_node, st)
      [] node_type = "SI" -> ExecSi(ast_node, st)
      [] node_type = "MIENTRAS" -> ExecMientras(ast_node, st)
      [] node_type = "PARA" -> ExecPara(ast_node, st)
      [] node_type = "HACER_MIENTRAS" -> ExecHacerMientras(ast_node, st)
      [] node_type = "RETORNA" -> ExecRetorna(ast_node, st)
      [] node_type = "BREAK" -> ExecBreak(ast_node, st)
      [] node_type = "CONTINUA" -> ExecContinua(ast_node, st)
      [] node_type = "TRY_CATCH" -> ExecTryCatch(ast_node, st)
      [] node_type = "ASIGNACION" -> ExecAsignacion(ast_node, st)
      [] node_type \in {"OPERACION_ARITMETICA", "OPERACION_COMPARACION", "OPERACION_LOGICA"}
            -> ExecOperacion(ast_node, st)
      [] node_type = "OPERACION_UNARIA" -> ExecOperacionUnaria(ast_node, st)
      [] node_type = "LLAMADA" -> ExecLlamada(ast_node, st)
      [] node_type = "LLAMADA_NATIVA" -> ExecLlamadaNativa(ast_node, st)
      [] node_type = "CONSTRUCTOR" -> ExecConstructor(ast_node, st)
      [] node_type = "ACCESO_MIEMBRO" -> ExecAccesoMiembro(ast_node, st)
      [] node_type = "ACCESO_INDICE" -> ExecAccesoIndice(ast_node, st)
      [] node_type = "ESTE" -> ExecEste(ast_node, st)
      [] node_type = "LISTA_LITERAL" -> ExecListaLiteral(ast_node, st)
      [] node_type = "OBJETO_LITERAL" -> ExecObjetoLiteral(ast_node, st)
      [] node_type \in {"DECLARACION_VAR_MIEMBRO", "DECLARACION_CONST_MIEMBRO"} -> Ok(st, PyNone)
      [] node_type = "IDENTIFICADOR" -> _get_variable_value(st, ast_node[2])
      [] node_type \in {"NUMERO", "CADENA", "BOOLEANO"} -> Ok(st, ast_node[2])
      [] node_type = "NULO" -> Ok(st, PyNone)
      [] OTHER -> Raise(st, ZiskRuntimeError("Tipo de nodo AST desconocido"))

\* ------------------------------------------------------------------------
\* ZiskREPL.evaluate(code, optimize): parse, optimize, execute, and the
\* except clauses.  The compiled Python text of the result pair is not
\* modelled; ZiskCompiler.compile reads the tree and touches no state.
\* The outcome is [st, ps, k, v]: evaluator state, parser scopes, and either
\* k = "ok" with the returned value or k = "raise" with the exception.
\* ------------------------------------------------------------------------
Outcome(st, ps, k, v) == [st |-> st, ps |-> ps, k |-> k, v |-> v]

evaluate(code, optimize_, st, ps) ==
    Let(parse(code, ps), LAMBDA p :
    IF p.k = "raise" THEN Outcome(st, p.st, "raise", p.v)
    ELSE Let(IF optimize_ THEN optimize(code) ELSE <<"ok", code>>, LAMBDA o :
    IF o[1] = "raise" THEN Outcome(st, p.st, "raise", o[2])
    ELSE Let(execute(o[2], st), LAMBDA x :
    IF x.k = "ok" THEN Outcome(x.st, p.st, "ok", x.v)
    ELSE IF x.v.cls = "ReturnException" THEN Outcome(x.st, p.st, "ok", x.v.value)
    ELSE IF x.v.cls \in {"BreakException", "ContinueException"}
    THEN Outcome(x.st, p.st, "raise", ZiskRuntimeError("fuera de lugar"))
    ELSE Outcome(x.st, p.st, "raise", x.v))))

\* evaluate from its first line on, for a program given with its text: the
\* lexer's error leaves the call at once, and a text without tokens returns
\* None before the parser is called
evaluate_text(text, code, optimize_, st, ps) ==
    Let(tokenize(text), LAMBDA tokens :
    IF tokens[1] = "raise" THEN Outcome(st, ps, "raise", tokens[2])
    ELSE IF tokens[2] = <<>> THEN Outcome(st, ps, "ok", PyNone)
    ELSE evaluate(code, optimize_, st, ps))

\* ------------------------------------------------------------------------
\* The state of one ZiskREPL instance
\* ------------------------------------------------------------------------
VARIABLES
    scopes,          \* self.scopes: the runtime scope stack, global frame first
    functions,       \* self.functions: the user-defined entries
    is_in_loop,      \* self.is_in_loop
    is_in_function,  \* self.is_in_function
    classes,         \* self.classes: the names of the classes declared here
    modules,         \* self.modules: the ZiskREPL of every imported module
    class_hierarchy, \* self.type_system.class_hierarchy
    pscopes,         \* self.parser.scopes: the parse-time scope stack
    out,             \* the lines `mostrar` printed during the last call
    last,            \* the last call of evaluate: program, flag, outcome,
                     \* and the evaluator state it started from
    calls,           \* how many calls of evaluate this instance has served
    class_objects,   \* self.classes: the class object that each name holds
    current_self,    \* self.current_self: the receiver `este` stands for
    method_signatures, \* self.type_system.method_signatures: the keys Class.method
    heap,            \* the lists, dictionaries, class objects and instances that
                     \* the interpreter has created, each at its address
    query            \* the call of the Type System that is running, if any

vars == <<scopes, functions, classes, modules, is_in_loop, is_in_function,
          class_hierarchy, pscopes, out, last, calls,
          class_objects, current_self, method_signatures, heap, query>>

\* a program of the model is named by a descriptor: its family and the
\* choices inside the family (see Code below)
Desc(fam, a, b, c, n) == [fam |-> fam, a |-> a, b |-> b, c |-> c, n |-> n]

Current ==
    [REPLState(scopes, functions, classes, modules, is_in_loop, is_in_function,
               class_hierarchy, <<>>)
        EXCEPT !.class_objects = class_objects, !.current_self = current_self,
               !.method_signatures = method_signatures, !.heap = heap]

\* no call of the Type System is running
Idle == [op |-> "", pc |-> "done"]

Init ==
    /\ scopes = <<EmptyFrame>>
    /\ functions = EmptyFrame
    /\ classes = {}
    /\ modules = EmptyFrame
    /\ is_in_loop = 0
    /\ is_in_function = 0
    /\ class_hierarchy = EmptyFrame
    /\ pscopes = <<EmptyFrame>>
    /\ out = <<>>
    /\ last = [prog |-> Desc("none", "", "", "", 0), optimize |-> FALSE,
               k |-> "ok", v |-> PyNone,
               pre |-> REPLState(<<EmptyFrame>>, EmptyFrame, {}, EmptyFrame, 0, 0,
                                 EmptyFrame, <<>>)]
    /\ calls = 0
    /\ class_objects = EmptyFrame
    /\ current_self = None
    /\ method_signatures = {}
    /\ heap = <<>>
    /\ query = Idle

\* one call evaluate(code, optimize) on the program that prog names; the
\* actions below bound the number of calls on one instance by MaxCalls
Evaluate(prog, code, optimize_) ==
    /\ calls' = calls + 1
    /\ \E r \in {evaluate(code, optimize_, Current, pscopes)} :
           /\ scopes' = r.st.scopes
           /\ functions' = r.st.functions
           /\ classes' = r.st.classes
           /\ modules' = r.st.modules
           /\ is_in_loop' = r.st.is_in_loop
           /\ is_in_function' = r.st.is_in_function
           /\ class_hierarchy' = r.st.class_hierarchy
           /\ class_objects' = r.st.class_objects
           /\ current_self' = r.st.current_self
           /\ method_signatures' = r.st.method_signatures
           /\ heap' = r.st.heap
           /\ query' = query
           /\ pscopes' = r.ps
           /\ out' = r.st.out
           /\ last' = [prog |-> prog, optimize |-> optimize_, k |-> r.k, v |-> r.v,
                       pre |-> Current]

\* ------------------------------------------------------------------------
\* Programs: try / catch / finally
\*
\*   funcion f() {
\*       var z = 0; var n = 0;
\*       mientras (n < 2) { n = n + 1; S; mostrar("a"); }
\*       mostrar("b");
\*       retorna 0;
\*   }
\*   f();
\*
\* where S is  try { mostrar("t"); T }  [catch (e) { mostrar("c"); C }]
\*             [finally { mostrar("f"); F }]
\* and the descriptor Desc("try", T, C, F, 0) names the three endings.
\* ------------------------------------------------------------------------
Line(s) == Mostrar(<<Cadena(s)>>)

\* what a block does after its mark
Ending(kind) ==
    CASE kind = "ok" -> <<>>
      [] kind = "zerr" -> <<Aritmetica("/", Numero(5), Identificador("z"))>>
      [] kind = "merr" -> <<Aritmetica("%", Numero(5), Identificador("z"))>>
      [] kind = "terr" -> <<Aritmetica("+", Numero(1), Cadena("a"))>>
      [] kind = "lit0" -> <<Aritmetica("/", Numero(5), Numero(0))>>
      [] kind = "pyerr" -> <<Asignacion("=", Identificador("q"), Numero(1))>>
      [] kind = "break" -> <<Break>>
      [] kind = "continue" -> <<Continua>>
      [] kind = "return" -> <<Retorna(Numero(7))>>
      [] kind = "return9" -> <<Retorna(Numero(9))>>

TryStatement(t, c, f) ==
    TryCatch(Bloque(<<Line("t")>> \o Ending(t)),
             IF c = "none" THEN NoName ELSE "e",
             IF c = "none" THEN None ELSE Bloque(<<Line("c")>> \o Ending(c)),
             IF f = "none" THEN None ELSE Bloque(<<Line("f")>> \o Ending(f)))

InLoopInFunction(S) ==
    Programa(<<
        Funcion("f", <<>>, NoName, Bloque(<<
            DeclVar("z", NoName, Numero(0)),
            DeclVar("n", NoName, Numero(0)),
            Mientras(Comparacion("<", Identificador("n"), Numero(2)),
                     Bloque(<<Asignacion("=", Identificador("n"),
                                         Aritmetica("+", Identificador("n"), Numero(1))),
                              S,
                              Line("a")>>)),
            Line("b"),
            Retorna(Numero(0))>>)),
        Llamada(Identificador("f"), <<>>)>>)

TryProgs(ts, cs, fs) == {Desc("try", t, c, f, 0) : t \in ts, c \in cs, f \in fs}

\* an error in the try block, with and without a handler
CatchProgs == TryProgs({"ok", "zerr", "terr", "pyerr", "lit0"}, {"none", "ok"}, {"none", "ok"})
\* every way out of the try block and of the handler, with a finally block
FinallyProgs == TryProgs({"ok", "zerr", "pyerr", "break", "continue", "return"},
                         {"none", "ok", "merr"}, {"ok", "merr"})
\* a control transfer out of the try block
ControlProgs == TryProgs({"ok", "break", "continue", "return"}, {"none", "ok"}, {"none", "ok"})
\* a finally block that raises or transfers control itself
ReplaceProgs ==
    TryProgs({"ok", "zerr", "break", "continue", "return"}, {"none"},
             {"merr", "break", "continue", "return9"})
    \cup TryProgs({"zerr"}, {"ok"}, {"merr", "break", "continue", "return9"})

\* ------------------------------------------------------------------------
\* Programs given by their source text: Desc("text", source, "", "", 0)
\* ------------------------------------------------------------------------
Text(source) == Desc("text", source, "", "", 0)

DefG == Funcion("g", <<>>, NoName, Bloque(<<Retorna(Numero(1))>>))
DefH == Funcion("h", << <<"a", "entero">> >>, NoName, Bloque(<<Retorna(Identificador("a"))>>))
DefK == Funcion("k", <<>>, NoName, Bloque(<<Break>>))
Call(name, args) == Llamada(Identificador(name), args)
AssignK(op, n) == Asignacion(op, Identificador("K"), Numero(n))

TextCode(source) ==
    CASE source = "const K = 1;" -> <<DeclConst("K", NoName, Numero(1))>>
      [] source = "K = 2;" -> <<AssignK("=", 2)>>
      [] source = "K += 1;" -> <<AssignK("+=", 1)>>
      [] source = "K -= 1;" -> <<AssignK("-=", 1)>>
      [] source = "K *= 2;" -> <<AssignK("*=", 2)>>
      [] source = "K /= 0;" -> <<AssignK("/=", 0)>>
      [] source = "K %= 2;" -> <<AssignK("%=", 2)>>
      [] source = "mostrar(K);" -> <<Mostrar(<<Identificador("K")>>)>>
      [] source = "const K = 2;" -> <<DeclConst("K", NoName, Numero(2))>>
      [] source = "K = 3;" -> <<AssignK("=", 3)>>
      [] source = "var x = K;" -> <<DeclVar("x", NoName, Identificador("K"))>>
      [] source = "const K = 1; K = 2;" -> <<DeclConst("K", NoName, Numero(1)), AssignK("=", 2)>>
      [] source = "var x = 1;" -> <<DeclVar("x", NoName, Numero(1))>>
      [] source = "x = 2;" -> <<Asignacion("=", Identificador("x"), Numero(2))>>
      [] source = "x *= 2;" -> <<Asignacion("*=", Identificador("x"), Numero(2))>>
      [] source = "mostrar(x);" -> <<Mostrar(<<Identificador("x")>>)>>
      [] source = "{ const K = 1; K = 2; mostrar(K); }" ->
            <<Bloque(<<DeclConst("K", NoName, Numero(1)), AssignK("=", 2),
                       Mostrar(<<Identificador("K")>>)>>)>>
      [] source = "{ const K = 1; K *= 2; mostrar(K); }" ->
            <<Bloque(<<DeclConst("K", NoName, Numero(1)), AssignK("*=", 2),
                       Mostrar(<<Identificador("K")>>)>>)>>
      [] source = "{ const K = 1; { K = 2; } mostrar(K); }" ->
            <<Bloque(<<DeclConst("K", NoName, Numero(1)), Bloque(<<AssignK("=", 2)>>),
                       Mostrar(<<Identificador("K")>>)>>)>>
      [] source = "funcion g() { retorna 1; } g();" -> <<DefG, Call("g", <<>>)>>
      [] source = "funcion g() { retorna 1; } g(1);" -> <<DefG, Call("g", <<Numero(1)>>)>>
      [] source = "g(1);" -> <<Call("g", <<Numero(1)>>)>>
      [] source = "g();" -> <<Call("g", <<>>)>>
      [] source = "funcion h(a: entero) { retorna a; } h(1);" ->
            <<DefH, Call("h", <<Numero(1)>>)>>
      [] source = "funcion h(a: entero) { retorna a; } h();" -> <<DefH, Call("h", <<>>)>>
      [] source = "funcion h(a: entero) { retorna a; } h(\"s\");" ->
            <<DefH, Call("h", <<Cadena("s")>>)>>
      [] source = "funcion h(a: entero) { retorna a; } h(1, 2);" ->
            <<DefH, Call("h", <<Numero(1), Numero(2)>>)>>
      [] source = "funcion k() { break; } k();" -> <<DefK, Call("k", <<>>)>>
      [] source = "{ var y = 1; }" -> <<Bloque(<<DeclVar("y", NoName, Numero(1))>>)>>
      [] source = "{ var y = 1; g(1); }" ->
            <<Bloque(<<DeclVar("y", NoName, Numero(1)), Call("g", <<Numero(1)>>)>>)>>
      [] source = "funcion g() { retorna 1; } { var y = 1; g(1); }" ->
            <<DefG, Bloque(<<DeclVar("y", NoName, Numero(1)), Call("g", <<Numero(1)>>)>>)>>
      [] source = "y;" -> <<Identificador("y")>>
      [] source = "retorna 5;" -> <<Retorna(Numero(5))>>
      [] source = "break;" -> <<Break>>
      [] source = "continua;" -> <<Continua>>
      [] source = "mientras (verdadero) { break; }" ->
            <<Mientras(Booleano(TRUE), Bloque(<<Break>>))>>

\* statements that assign to the name K
AssignConstProgs ==
    {Text(t) : t \in {"K = 2;", "K = 3;", "K += 1;", "K -= 1;", "K *= 2;", "K /= 0;", "K %= 2;"}}
\* blocks that declare the constant K and then assign to it
BlockConstProgs ==
    {Text(t) : t \in {"{ const K = 1; K = 2; mostrar(K); }",
                      "{ const K = 1; K *= 2; mostrar(K); }",
                      "{ const K = 1; { K = 2; } mostrar(K); }"}}
ConstProgs ==
    AssignConstProgs \cup BlockConstProgs
    \cup {Text(t) : t \in {"const K = 1;", "const K = 2;", "mostrar(K);", "const K = 1; K = 2;",
                           "var x = 1;", "var x = K;", "x = 2;", "x *= 2;", "mostrar(x);"}}

\* programs that call a user-defined function
UserCallProgs ==
    {Text(t) : t \in {"funcion g() { retorna 1; } g();", "funcion g() { retorna 1; } g(1);",
                      "g(1);", "g();",
                      "funcion h(a: entero) { retorna a; } h(1);",
                      "funcion h(a: entero) { retorna a; } h();",
                      "funcion h(a: entero) { retorna a; } h(\"s\");",
                      "funcion h(a: entero) { retorna a; } h(1, 2);",
                      "funcion k() { break; } k();"}}
\* programs that are one block declaring y
BlockProgs ==
    {Text(t) : t \in {"{ var y = 1; }", "{ var y = 1; g(1); }",
                      "funcion g() { retorna 1; } { var y = 1; g(1); }"}}
\* a control keyword, or a read of y, with no loop and no call around it
TopLevelProgs ==
    {Text(t) : t \in {"y;", "retorna 5;", "break;", "continua;",
                      "mientras (verdadero) { break; }"}}
CallProgs == UserCallProgs \cup BlockProgs \cup TopLevelProgs

\* ------------------------------------------------------------------------
\* Programs: division and modulo, Desc("div", op, divisor, "", n) is
\*   { var z = 0; mostrar(n op divisor); }
\* and the counting loop, Desc("para", context, "", "", N) is
\*   para (var i = 0; i < N; i += 1) { mostrar(i); }
\* at top level (context "top") or inside a block (context "block")
\* ------------------------------------------------------------------------
Divisor(form) ==
    CASE form = "0" -> Numero(0)
      [] form = "2" -> Numero(2)
      [] form = "(1 - 1)" -> Aritmetica("-", Numero(1), Numero(1))
      [] form = "z" -> Identificador("z")
      [] form = "(z - z)" -> Aritmetica("-", Identificador("z"), Identificador("z"))

DivCode(op, form, n) ==
    <<Bloque(<<DeclVar("z", NoName, Numero(0)),
               Mostrar(<<Aritmetica(op, Numero(n), Divisor(form))>>)>>)>>

CountingLoop(N) ==
    Para(DeclVar("i", NoName, Numero(0)),
         Comparacion("<", Identificador("i"), Numero(N)),
         Asignacion("+=", Identificador("i"), Numero(1)),
         Bloque(<<Mostrar(<<Identificador("i")>>)>>))

ParaCode(context, N) ==
    IF context = "top" THEN <<CountingLoop(N)>> ELSE <<Bloque(<<CountingLoop(N)>>)>>

DivProgs ==
    {Desc("div", op, form, "", n) :
        op \in {"/", "%"}, form \in {"0", "2", "(1 - 1)", "z", "(z - z)"}, n \in 0..MaxN}
ParaProgs == {Desc("para", context, "", "", N) : context \in {"top", "block"}, N \in 0..MaxN}

\* ------------------------------------------------------------------------
\* Programs: nested loops.  Desc("nest", kinds, event, "", k) is a block with
\* one loop inside the other, kinds[1] the outermost; the loop of level l
\* counts its variable (a, b, c) from 1 to Iterations and prints it at the
\* end of its body; the innermost body starts with
\*     si (v == k) { break; }      or      si (v == k) { continua; }
\*   mientras:  var v = 0; mientras (v < N) { v = v + 1; ... mostrar("v", v); }
\*   hacer:     var v = 0; hacer_mientras { v = v + 1; ... mostrar("v", v); } mientras v < N;
\*   para:      para (var v = 1; v <= N; v = v + 1) { ... mostrar("v", v); }
\* ------------------------------------------------------------------------
LoopVar(level) == <<"a", "b", "c">>[level]
Increment(v) == Asignacion("=", Identificador(v), Aritmetica("+", Identificador(v), Numero(1)))

LoopStatements(kind, v, body) ==
    CASE kind = "mientras" ->
            <<DeclVar(v, NoName, Numero(0)),
              Mientras(Comparacion("<", Identificador(v), Numero(Iterations)),
                       Bloque(<<Increment(v)>> \o body))>>
      [] kind = "hacer" ->
            <<DeclVar(v, NoName, Numero(0)),
              HacerMientras(Bloque(<<Increment(v)>> \o body),
                            Comparacion("<", Identificador(v), Numero(Iterations)))>>
      [] kind = "para" ->
            <<Para(DeclVar(v, NoName, Numero(1)),
                   Comparacion("<=", Identificador(v), Numero(Iterations)),
                   Increment(v),
                   Bloque(body))>>

RECURSIVE Nest(_, _, _, _)
Nest(kinds, level, event, k) ==
    LET v == LoopVar(level)
        show == Mostrar(<<Cadena(v), Identificador(v)>>)
        body == IF level = Len(kinds)
                THEN <<Si(Comparacion("==", Identificador(v), Numero(k)),
                          Bloque(<<IF event = "break" THEN Break ELSE Continua>>), None),
                       show>>
                ELSE Nest(kinds, level + 1, event, k) \o <<show>>
    IN  LoopStatements(kinds[level], v, body)

LoopKinds == {"mientras", "para", "hacer"}
NestKinds ==
    {<<o, i>> : o \in LoopKinds, i \in LoopKinds}
    \cup {<<o, m, i>> : o \in LoopKinds, m \in LoopKinds, i \in LoopKinds}
NestProgs ==
    {Desc("nest", kinds, event, "", k) :
        kinds \in NestKinds, event \in {"break", "continue"}, k \in 1..Iterations}

\* ------------------------------------------------------------------------
\* Programs: a function that returns from inside nested statements
\*
\*   funcion f(p) {
\*       W1 { W2 { si (c) { mostrar(1); retorna 1; } [sino { mostrar(2); retorna 2; }] } }
\*       [mostrar(3); retorna 3;]
\*   }
\*   f(verdadero);
\*
\* where each W is one of the statements of Wrap, c is a literal or the
\* parameter p, and every `retorna n` is announced by `mostrar(n)`.
\* ------------------------------------------------------------------------
RetornaMarked(n) == <<Mostrar(<<Numero(n)>>), Retorna(Numero(n))>>

Wrap(kind, inner) ==
    CASE kind = "bloque" -> <<Bloque(inner)>>
      [] kind = "si" -> <<Si(Booleano(TRUE), Bloque(inner), None)>>
      [] kind = "sino" -> <<Si(Booleano(FALSE), Bloque(<<Line("s")>>), Bloque(inner))>>
      [] kind = "mientras" -> <<Mientras(Booleano(TRUE), Bloque(inner \o <<Break>>))>>
      [] kind = "hacer" -> <<HacerMientras(Bloque(inner \o <<Break>>), Booleano(TRUE))>>
      [] kind = "para" ->
            <<Para(DeclVar("i", NoName, Numero(0)),
                   Comparacion("<", Identificador("i"), Numero(1)),
                   Increment("i"), Bloque(inner))>>
      [] kind = "try" -> <<TryCatch(Bloque(inner), "e", Bloque(<<Line("c")>>), None)>>
      [] kind = "finally" -> <<TryCatch(Bloque(inner), NoName, None, Bloque(<<Line("f")>>))>>
      [] kind = "finally9" -> <<TryCatch(Bloque(inner), NoName, None, Bloque(RetornaMarked(9)))>>

RECURSIVE WrapAll(_, _)
WrapAll(kinds, inner) ==
    IF kinds = <<>> THEN inner ELSE Wrap(Head(kinds), WrapAll(Tail(kinds), inner))

Branching(cond, shape) ==
    <<Si(IF cond \in {"verdadero", "falso"} THEN Booleano(cond = "verdadero")
         ELSE Identificador("p"),
         Bloque(RetornaMarked(1)),
         IF shape = "sisino" THEN Bloque(RetornaMarked(2)) ELSE None)>>

RetornaCode(kinds, cond, shape, trailing) ==
    <<Funcion("f", << <<"p", NoName>> >>, NoName,
              Bloque(WrapAll(kinds, Branching(cond, shape))
                     \o (IF trailing = 0 THEN <<>> ELSE RetornaMarked(trailing)))),
      Call("f", <<Booleano(cond \in {"verdadero", "p=verdadero"})>>)>>

\* the statements without a `retorna` of their own, and all of them
PlainWrapKinds == {"bloque", "si", "sino", "mientras", "hacer", "para", "try", "finally"}
WrapKinds == PlainWrapKinds \cup {"finally9"}
Wrappings(kinds) ==
    {<<>>} \cup {<<a>> : a \in kinds} \cup {<<a, b>> : a \in kinds, b \in kinds}
RetornaProgs ==
    {Desc("ret", kinds, cond, shape, trailing) :
        kinds \in Wrappings(WrapKinds),
        cond \in {"verdadero", "falso", "p=verdadero", "p=falso"},
        shape \in {"si", "sisino"}, trailing \in {0, 3}}

\* ------------------------------------------------------------------------
\* Programs: two declarations of one name
\*
\*   { D1; S; D2 }                      first declared by `var` or `const`
\*   funcion f(_X) { S; D2 }            first declared as a parameter
\*   { { var _X = 1; S } D2 }           first declared in a nested block, closed
\*
\* where S is one of the statements of Between and D2 is `var _X = 2;` or
\* `const _X = 2;`, standing in the block itself or in a block nested in it.
\* The name _X passes the naming rule of variables and that of constants.
\* ------------------------------------------------------------------------
Decl(kind, n) ==
    IF kind = "var" THEN DeclVar("_X", NoName, Numero(n)) ELSE DeclConst("_X", NoName, Numero(n))

Between(s) ==
    CASE s = "none" -> <<>>
      [] s = "mostrar" -> <<Line("m")>>
      [] s = "bloque" -> <<Bloque(<<Line("m")>>)>>
      [] s = "shadow" -> <<Bloque(<<DeclVar("_X", NoName, Numero(5))>>)>>
      [] s = "si" -> <<Si(Booleano(TRUE), Bloque(<<Line("m")>>), None)>>
      [] s = "sisino" -> <<Si(Booleano(FALSE), Bloque(<<Line("m")>>), Bloque(<<Line("n")>>))>>
      [] s = "mientras" -> <<Mientras(Booleano(FALSE), Bloque(<<Line("m")>>))>>
      [] s = "para" -> Wrap("para", <<Line("m")>>)
      [] s = "finally" -> Wrap("finally", <<Line("m")>>)
      [] s = "catch" -> Wrap("try", <<Line("m")>>)
      [] s = "catchfinally" ->
            <<TryCatch(Bloque(<<Line("m")>>), "e", Bloque(<<Line("c")>>), Bloque(<<Line("f")>>))>>

Betweens ==
    {"none", "mostrar", "bloque", "shadow", "si", "sisino", "mientras", "para", "finally",
     "catch", "catchfinally"}

Second(kind, place) == IF place = "same" THEN <<Decl(kind, 2)>> ELSE <<Bloque(<<Decl(kind, 2)>>)>>

DeclCode(first, s, second) ==
    CASE first \in {"var", "const"} ->
            <<Bloque(<<Decl(first, 1)>> \o Between(s) \o Second(second[1], second[2]))>>
      [] first = "param" ->
            <<Funcion("f", << <<"_X", NoName>> >>, NoName,
                      Bloque(Between(s) \o Second(second[1], second[2])))>>
      [] first = "closed" ->
            <<Bloque(<<Bloque(<<Decl("var", 1)>> \o Between(s))>>
                     \o Second(second[1], second[2]))>>

DeclProgs ==
    {Desc("decl", first, s, <<kind, place>>, 0) :
        first \in {"var", "const", "param", "closed"}, s \in Betweens,
        kind \in {"var", "const"}, place \in {"same", "nested"}}

\* ------------------------------------------------------------------------
\* Programs: arithmetic on numeric literals
\*
\*   a op b;      (a op b) op c;      a op (b op c);
\*
\* with a, b, c among the literals 0, 1, 2, 0.5 and op among + - * /.
\* Desc("expr", ops, shape, lits, 0) names the operators and the literals
\* from left to right.
\* ------------------------------------------------------------------------
Literals == <<PyInt(0), PyInt(1), PyInt(2), PyFloat(1, 2)>>
Literal(i) == <<"NUMERO", Literals[i]>>
ArithOps == {"+", "-", "*", "/"}

ExprCode(shape, ops, lits) ==
    CASE shape = "one" -> <<Aritmetica(ops[1], Literal(lits[1]), Literal(lits[2]))>>
      [] shape = "left" ->
            <<Aritmetica(ops[2], Aritmetica(ops[1], Literal(lits[1]), Literal(lits[2])),
                         Literal(lits[3]))>>
      [] shape = "right" ->
            <<Aritmetica(ops[1], Literal(lits[1]),
                         Aritmetica(ops[2], Literal(lits[2]), Literal(lits[3])))>>

ExprProgs ==
    {Desc("expr", <<o>>, "one", <<a, b>>, 0) :
        o \in ArithOps, a \in DOMAIN Literals, b \in DOMAIN Literals}
    \cup {Desc("expr", <<o1, o2>>, shape, <<a, b, c>>, 0) :
            shape \in {"left", "right"}, o1 \in ArithOps, o2 \in ArithOps,
            a \in DOMAIN Literals, b \in DOMAIN Literals, c \in DOMAIN Literals}

\* ------------------------------------------------------------------------
\* Programs: imports
\*
\*   importa modm;      importa "modm.zk" como a;
\*   importa modm como a; importa modm como b;
\* ------------------------------------------------------------------------
ImportCode(path, alias, times) ==
    IF times = "once" THEN <<Importa(path, alias)>>
    ELSE <<Importa(path, "a"), Importa(path, "b")>>

\* the paths whose file exists and evaluates without error
GoodPaths == {"modm", "modm.zk", "modk"}
OneImportProgs == {Desc("importa", p, alias, "once", 0) : p \in Paths, alias \in {NoName, "a", "b"}}
TwoImportProgs == {Desc("importa", p, "a", "twice", 0) : p \in GoodPaths}
ImportProgs == OneImportProgs \cup TwoImportProgs

\* ------------------------------------------------------------------------
\* Programs: class declarations
\*
\*   clase B { }        clase B extiende A { }
\* ------------------------------------------------------------------------
ClassNames == {"A", "B", "C"}
ClaseProgs == {Desc("clase", n, s, "", 0) : n \in ClassNames, s \in ClassNames \cup {NoName}}

\* ------------------------------------------------------------------------
\* Texts: comments
\*
\* A text is one to three pieces in a row.  A piece is a name or a comment
\* followed by a blank or a newline, so that a comment never glues two
\* names together:
\*
\*   x_          y\n          // c\n       # c\n
\*   /* c */_    /* c\nd */_  ### c ###_   ###\nc\n###_
\* ------------------------------------------------------------------------
PieceComment(kind) ==
    CASE kind = "slashes" -> <<"/", "/", " ", "c">>
      [] kind = "hash" -> <<"#", " ", "c">>
      [] kind = "block" -> <<"/", "*", " ", "c", " ", "*", "/">>
      [] kind = "blocklines" -> <<"/", "*", " ", "c", "\n", "d", " ", "*", "/">>
      [] kind = "hashes" -> <<"#", "#", "#", " ", "c", " ", "#", "#", "#">>
      [] kind = "hasheslines" -> <<"#", "#", "#", "\n", "c", "\n", "#", "#", "#">>
      [] OTHER -> <<>>

\* what is left of the piece when its comment is removed
PieceRest(kind) ==
    CASE kind = "x" -> <<"x", " ">>
      [] kind = "y" -> <<"y", "\n">>
      [] kind \in {"slashes", "hash"} -> <<"\n">>
      [] OTHER -> <<" ">>

PieceKinds ==
    {"x", "y", "slashes", "hash", "block", "blocklines", "hashes", "hasheslines"}

RECURSIVE Pieces(_, _)
Pieces(kinds, commented) ==
    IF kinds = <<>> THEN <<>>
    ELSE (IF commented THEN PieceComment(Head(kinds)) ELSE <<>>)
         \o PieceRest(Head(kinds)) \o Pieces(Tail(kinds), commented)

MaxPieces == 3
CommentTexts ==
    {Desc("lexer", kinds, "comment", "", 0) :
        kinds \in UNION {[1..n -> PieceKinds] : n \in 1..MaxPieces}}

\* ------------------------------------------------------------------------
\* Texts: words
\*
\* a keyword or type name, alone or with characters of a name before or
\* after it:   si   six   si1   si_a   simple   xsi   _si
\* ------------------------------------------------------------------------
\* the entries of tokens_spec before IDENTIFICADOR and their words
KeywordEntries == {i \in DOMAIN tokens_spec : i < regex_compilado(<<"_">>, 1)}
Keywords == UNION {{tokens_spec[i].words[j] : j \in DOMAIN tokens_spec[i].words} : i \in KeywordEntries}
Affixes == {<<>>, <<"x">>, <<"1">>, <<"_", "a">>, <<"m", "p", "l", "e">>}
WordTexts ==
    {Desc("lexer", <<k, s>>, "word", "", 0) : k \in Keywords, s \in Affixes}
    \cup {Desc("lexer", <<s, k>>, "word", "", 0) : k \in Keywords, s \in {<<"x">>, <<"_">>}}

\* the text that a descriptor of the family "lexer" names
LexerText(d) ==
    IF d.b = "comment" THEN Pieces(d.a, TRUE) ELSE d.a[1] \o d.a[2]

\* ------------------------------------------------------------------------
\* Programs: a statement that runs, then a statement that fails
\*
\*   mostrar("a"); var x: entero = "s";        var y = 1; @
\*
\* These programs are given with their text, which evaluate tokenizes first.
\* ------------------------------------------------------------------------
AbortPrefix(kind) ==
    CASE kind = "none" -> <<>>
      [] kind = "mostrar" -> <<Mostrar(<<Cadena("a")>>)>>
      [] kind = "var" -> <<DeclVar("y", NoName, Numero(1))>>
      [] kind = "funcion" -> <<DefG>>
      [] kind = "clase" -> <<Clase("K", NoName, <<>>)>>

\* the tree of the failing part; the text of "lex" does not tokenize and has none
AbortFailure(kind) ==
    CASE kind = "lex" -> <<>>
      [] kind = "parse" -> <<DeclVar("z", NoName, Numero(1)), DeclVar("z", NoName, Numero(2))>>
      [] kind = "decl" -> <<DeclVar("x", "entero", Cadena("s"))>>
      [] kind = "assign" ->
            <<DeclVar("t", "entero", Numero(1)), Asignacion("=", Identificador("t"), Cadena("s"))>>
      [] kind = "call" -> <<DefH, Call("h", <<Cadena("s")>>)>>
      [] kind = "none" -> <<Mostrar(<<Cadena("z")>>)>>

AbortPrefixText(kind) ==
    CASE kind = "none" ->
            <<>>
      [] kind = "mostrar" ->
            <<"m", "o", "s", "t", "r", "a", "r", "(", "\"", "a", "\"", ")", ";", " ">>
      [] kind = "var" ->
            <<"v", "a", "r", " ", "y", " ", "=", " ", "1", ";", " ">>
      [] kind = "funcion" ->
            <<"f", "u", "n", "c", "i", "o", "n", " ", "g", "(", ")", " ", "{", " ",
              "r", "e", "t", "o", "r", "n", "a", " ", "1", ";", " ", "}", " ">>
      [] kind = "clase" ->
            <<"c", "l", "a", "s", "e", " ", "K", " ", "{", " ", "}", " ">>

AbortFailureText(kind) ==
    CASE kind = "lex" ->
            <<"@">>
      [] kind = "parse" ->
            <<"v", "a", "r", " ", "z", " ", "=", " ", "1", ";", " ", "v", "a", "r",
              " ", "z", " ", "=", " ", "2", ";">>
      [] kind = "decl" ->
            <<"v", "a", "r", " ", "x", ":", " ", "e", "n", "t", "e", "r", "o", " ",
              "=", " ", "\"", "s", "\"", ";">>
      [] kind = "assign" ->
            <<"v", "a", "r", " ", "t", ":", " ", "e", "n", "t", "e", "r", "o", " ",
              "=", " ", "1", ";", " ", "t", " ", "=", " ", "\"", "s", "\"", ";">>
      [] kind = "call" ->
            <<"f", "u", "n", "c", "i", "o", "n", " ", "h", "(", "a", ":", " ", "e",
              "n", "t", "e", "r", "o", ")", " ", "{", " ", "r", "e", "t", "o", "r",
              "n", "a", " ", "a", ";", " ", "}", " ", "h", "(", "\"", "s", "\"", ")",
              ";">>
      [] kind = "none" ->
            <<"m", "o", "s", "t", "r", "a", "r", "(", "\"", "z", "\"", ")", ";">>

AbortPrefixes == {"none", "mostrar", "var", "funcion", "clase"}
AbortFailures == {"lex", "parse", "decl", "assign", "call", "none"}
AbortProgs == {Desc("abort", p, f, "", 0) : p \in AbortPrefixes, f \in AbortFailures}
AbortText(d) == AbortPrefixText(d.a) \o AbortFailureText(d.b)

\* ------------------------------------------------------------------------
\* Programs: a plain assignment under nested blocks
\*
\*   [var x = 1;] { [var x = 2;] { [var x = 3;] x = V; mostrar(x); } mostrar(x); }
\*   mostrar(x);
\*
\* Desc("assign", declared, "", "", V): declared[i] = "var" when level i
\* declares x; mostrar(x) stands at the levels that can resolve x.
\* ------------------------------------------------------------------------
AssignLevels == 3
AssignDeclared == [1..AssignLevels -> {"var", ""}]
\* whether x is resolvable at a level: declared there or further out, or left
\* in the global frame by an earlier call
Resolvable(declared, level, known) ==
    known \/ \E i \in 1..level : declared[i] = "var"
RECURSIVE AssignBody(_, _, _, _)
AssignBody(declared, level, V, known) ==
    (IF declared[level] = "var" THEN <<DeclVar("x", NoName, Numero(level))>> ELSE <<>>)
    \o (IF level = AssignLevels
        THEN <<Asignacion("=", Identificador("x"), Numero(V))>>
        ELSE <<Bloque(AssignBody(declared, level + 1, V, known))>>)
    \o (IF Resolvable(declared, level, known)
        THEN <<Mostrar(<<Identificador("x")>>)>> ELSE <<>>)
AssignValues == 7..9
AssignProgs == {Desc("assign", declared, "", "", V) : declared \in AssignDeclared, V \in AssignValues}

\* ------------------------------------------------------------------------
\* Programs: a name declared without annotation, then assigned
\*
\*   var x; x = W; mostrar(x);            var x = V; x = W; mostrar(x);
\*   funcion f(p) { p = W; mostrar(p); } f(V);
\*
\* Desc("untyped", form, V, W, 0): V and W name the kind of the literal.
\* ------------------------------------------------------------------------
LiteralOf(kind) ==
    CASE kind = "entero" -> Numero(5)
      [] kind = "texto" -> Cadena("s")
      [] kind = "booleano" -> Booleano(TRUE)
      [] kind = "nulo" -> Nulo
LiteralKinds == {"entero", "texto", "booleano", "nulo"}
UntypedCode(form, V, W) ==
    CASE form = "var" ->
            <<DeclVar("x", NoName, None), Asignacion("=", Identificador("x"), LiteralOf(W)),
              Mostrar(<<Identificador("x")>>)>>
      [] form = "init" ->
            <<DeclVar("x", NoName, LiteralOf(V)), Asignacion("=", Identificador("x"), LiteralOf(W)),
              Mostrar(<<Identificador("x")>>)>>
      [] form = "param" ->
            <<Funcion("f", << <<"p", NoName>> >>, NoName,
                      Bloque(<<Asignacion("=", Identificador("p"), LiteralOf(W)),
                               Mostrar(<<Identificador("p")>>)>>)),
              Call("f", <<LiteralOf(V)>>)>>
UntypedProgs ==
    {Desc("untyped", "var", "nulo", W, 0) : W \in LiteralKinds}
    \cup {Desc("untyped", form, V, W, 0) : form \in {"init", "param"}, V \in LiteralKinds, W \in LiteralKinds}

\* ------------------------------------------------------------------------
\* Programs: a function that uses a name its caller holds as a local
\*
\*   [var y = 1;]
\*   funcion g() { mostrar(y); }            or   funcion g() { y = 8; }
\*   funcion f() { var y = 7; g(); mostrar(y); }
\*   f();
\*
\* Desc("caller", access, global, where, 0): the caller holds y as a local of
\* its body, as a parameter (funcion f(y) ... f(7)) or as a local of a block
\* inside its body.
\* ------------------------------------------------------------------------
CalleeCode(access) ==
    Funcion("g", <<>>, NoName,
            Bloque(<<IF access = "read" THEN Mostrar(<<Identificador("y")>>)
                     ELSE Asignacion("=", Identificador("y"), Numero(8))>>))
CallerUse == <<Call("g", <<>>), Mostrar(<<Identificador("y")>>)>>
CallerCode(where) ==
    CASE where = "local" ->
            <<Funcion("f", <<>>, NoName, Bloque(<<DeclVar("y", NoName, Numero(7))>> \o CallerUse)),
              Call("f", <<>>)>>
      [] where = "param" ->
            <<Funcion("f", << <<"y", NoName>> >>, NoName, Bloque(CallerUse)),
              Call("f", <<Numero(7)>>)>>
      [] where = "block" ->
            <<Funcion("f", <<>>, NoName,
                      Bloque(<<Bloque(<<DeclVar("y", NoName, Numero(7))>> \o CallerUse)>>)),
              Call("f", <<>>)>>
CallerProgramCode(access, global, where) ==
    (IF global = "global" THEN <<DeclVar("y", NoName, Numero(1))>> ELSE <<>>)
    \o <<CalleeCode(access)>> \o CallerCode(where)
CallerProgs ==
    {Desc("caller", access, global, where, 0) :
        access \in {"read", "write"}, global \in {"global", ""}, where \in {"local", "param", "block"}}

\* ------------------------------------------------------------------------
\* Programs: a member is written, then read
\*
\*   var o = {f: 1};                         o.f = V; mostrar(o.f);
\*   clase K { var f = 1;
\*             funcion put(a) { este.f = a; }
\*             funcion get() { retorna este.f; } }
\*   var o = nuevo K();                      o.f = V; mostrar(o.f);
\*                                           o.put(V); mostrar(o.get());
\*
\* Desc("member", receiver, field, form, V): the field is f, which the
\* receiver has from the start, or g, which the write would add.
\* ------------------------------------------------------------------------
ClaseK ==
    Clase("K", NoName,
          <<VarMiembro("f", NoName, Numero(1), FALSE),
            Metodo("put", << <<"a", NoName>> >>, NoName,
                   Bloque(<<Asignacion("=", AccesoMiembro(Este, "f"), Identificador("a"))>>), FALSE),
            Metodo("get", <<>>, NoName, Bloque(<<Retorna(AccesoMiembro(Este, "f"))>>), FALSE)>>)
MemberReceiver(receiver) ==
    IF receiver = "objeto"
    THEN <<DeclVar("o", NoName, ObjetoLiteral(<< <<"f", Numero(1)>> >>))>>
    ELSE <<ClaseK, DeclVar("o", NoName, Constructor("K", <<>>))>>
MemberCode(receiver, field, form, V) ==
    MemberReceiver(receiver)
    \o (IF form = "method"
        THEN <<Llamada(AccesoMiembro(Identificador("o"), "put"), <<Numero(V)>>),
               Mostrar(<<Llamada(AccesoMiembro(Identificador("o"), "get"), <<>>)>>)>>
        ELSE <<Asignacion("=", AccesoMiembro(Identificador("o"), field), Numero(V)),
               Mostrar(<<AccesoMiembro(Identificador("o"), field)>>)>>)
MemberValues == 5..9
MemberProgs ==
    {Desc("member", receiver, field, "direct", V) :
        receiver \in {"objeto", "instancia"}, field \in {"f", "g"}, V \in MemberValues}
    \cup {Desc("member", "instancia", "f", "method", V) : V \in MemberValues}

\* ------------------------------------------------------------------------
\* Programs: a compound assignment
\*
\*   var x = C; x op= R;             var l = [0, C]; l[1] op= R;
\*   var o = {a: C}; o.a op= R;      var o = {a: C}; o["a"] op= R;
\*
\* Desc("compound", target, op, <<C, R>>, 0)
\* ------------------------------------------------------------------------
CompoundTarget(target) ==
    CASE target = "variable" -> Identificador("x")
      [] target = "elemento" -> AccesoIndice(Identificador("l"), Numero(1))
      [] target = "miembro" -> AccesoMiembro(Identificador("o"), "a")
      [] target = "clave" -> AccesoIndice(Identificador("o"), Cadena("a"))
CompoundCode(target, op, C, R) ==
    <<CASE target = "variable" -> DeclVar("x", NoName, Numero(C))
        [] target = "elemento" -> DeclVar("l", NoName, ListaLiteral(<<Numero(0), Numero(C)>>))
        [] OTHER -> DeclVar("o", NoName, ObjetoLiteral(<< <<"a", Numero(C)>> >>)),
      Asignacion(op, CompoundTarget(target), Numero(R))>>
CompoundOps == {"+=", "-=", "*=", "/=", "%="}
CompoundTargets == {"variable", "elemento", "miembro", "clave"}
CompoundProgs ==
    {Desc("compound", target, op, <<C, R>>, 0) :
        target \in CompoundTargets, op \in CompoundOps, C \in {6, 7}, R \in {0, 2, 3}}

\* ------------------------------------------------------------------------
\* Programs: `este` in the body of a method
\*
\*   { clase E { funcion inner() { retorna 0; }
\*               estatico funcion t() { retorna 0; }
\*               estatico funcion s() { mostrar(este == R); }
\*               funcion m() { PRE mostrar(este == R); }
\*               funcion n() { E.s(); } }
\*     var o = nuevo E(); var p = nuevo E();
\*     R.m();                                  or  R.n();  or  E.s();
\*   }
\*
\* Desc("este", where, R, "", 0): R is the receiver o or p, and PRE is
\* nothing ("method"), este.inner(); ("nested"), the call of inner on the
\* other instance ("other") or E.t(); ("static"); "s" and "n" evaluate
\* `este` in the static method s, called from the block and from the
\* instance method n.
\* ------------------------------------------------------------------------
EsteIsReceiver(R) == Mostrar(<<Comparacion("==", Este, Identificador(R))>>)
OtherOf(R) == IF R = "o" THEN "p" ELSE "o"
EstePre(where, R) ==
    CASE where = "nested" -> <<Llamada(AccesoMiembro(Este, "inner"), <<>>)>>
      [] where = "other" -> <<Llamada(AccesoMiembro(Identificador(OtherOf(R)), "inner"), <<>>)>>
      [] where = "static" -> <<Llamada(AccesoMiembro(Identificador("E"), "t"), <<>>)>>
      [] OTHER -> <<>>
ClaseE(where, R) ==
    Clase("E", NoName,
          <<Metodo("inner", <<>>, NoName, Bloque(<<Retorna(Numero(0))>>), FALSE),
            Metodo("t", <<>>, NoName, Bloque(<<Retorna(Numero(0))>>), TRUE),
            Metodo("s", <<>>, NoName, Bloque(<<EsteIsReceiver(R)>>), TRUE),
            Metodo("m", <<>>, NoName, Bloque(EstePre(where, R) \o <<EsteIsReceiver(R)>>), FALSE),
            Metodo("n", <<>>, NoName,
                   Bloque(<<Llamada(AccesoMiembro(Identificador("E"), "s"), <<>>)>>), FALSE)>>)
EsteCode(where, R) ==
    <<Bloque(<<ClaseE(where, R),
               DeclVar("o", NoName, Constructor("E", <<>>)),
               DeclVar("p", NoName, Constructor("E", <<>>)),
               CASE where = "s" -> Llamada(AccesoMiembro(Identificador("E"), "s"), <<>>)
                 [] where = "n" -> Llamada(AccesoMiembro(Identificador(R), "n"), <<>>)
                 [] OTHER -> Llamada(AccesoMiembro(Identificador(R), "m"), <<>>)>>)>>
EsteInstanceBodies == {"method", "nested", "other", "static"}
EsteStaticBodies == {"s", "n"}
EsteProgs ==
    {Desc("este", where, R, "", 0) :
        where \in EsteInstanceBodies \cup EsteStaticBodies, R \in {"o", "p"}}

\* ------------------------------------------------------------------------
\* Programs: `nuevo`
\*
\*   { clase C { [var f = 1;] [var g = 2;] [var h = 3;]
\*               [funcion constructor(ARGS) { mostrar("c"); mostrar(este == nulo); }] }
\*     var o = nuevo C(ARGS);
\*     [mostrar(o.f);] [mostrar(o.g);] [mostrar(o.h);] }
\*
\* Desc("nuevo", init, "", <<fields, args>>, 0): the class has the method
\* `constructor` (init = "constructor") or no method, it declares the first
\* `fields` of the fields f, g and h, and `nuevo` gives `args` arguments.
\* ------------------------------------------------------------------------
NuevoFields == <<"f", "g", "h">>
NuevoParams(args) == [i \in 1..args |-> <<NuevoFields[i], NoName>>]
NuevoArgs(args) == [i \in 1..args |-> Numero(i + 4)]
ClaseC(init, fields, args) ==
    Clase("C", NoName,
          [i \in 1..fields |-> VarMiembro(NuevoFields[i], NoName, Numero(i), FALSE)]
          \o (IF init = "constructor"
              THEN <<Metodo("constructor", NuevoParams(args), NoName,
                            Bloque(<<Mostrar(<<Cadena("c")>>),
                                     Mostrar(<<Comparacion("==", Este, Nulo)>>)>>), FALSE)>>
              ELSE <<>>))
NuevoCode(init, fields, args) ==
    <<Bloque(<<ClaseC(init, fields, args),
               DeclVar("o", NoName, Constructor("C", NuevoArgs(args)))>>
             \o [i \in 1..fields |-> Mostrar(<<AccesoMiembro(Identificador("o"), NuevoFields[i])>>)])>>
NuevoProgs ==
    {Desc("nuevo", init, "", <<fields, args>>, 0) :
        init \in {"constructor", "none"}, fields \in 0..Len(NuevoFields), args \in 0..Len(NuevoFields)}

\* ------------------------------------------------------------------------
\* Programs: the depth of the parser's scopes
\*
\*   S(outer, B)  where the body B is  mostrar("s");  or one statement
\*   S(inner, mostrar("s");), and S(kind, B) is
\*
\*     bloque         { B }
\*     si             si (verdadero) { B }
\*     sino           si (falso) { mostrar("n"); } sino { B }
\*     mientras       mientras (falso) { B }
\*     para           para (; falso; ) { B }
\*     hacer          hacer_mientras { B } mientras falso;
\*     funcion        funcion f(p) { B }
\*     clase          clase K { funcion m() { B } }
\*     catch          try { B } catch (e) { mostrar("c"); }
\*     finally        try { B } finally { mostrar("f"); }
\*     catch_finally  try { B } catch (e) { mostrar("c"); } finally { mostrar("f"); }
\*
\* Desc("depth", outer, inner, llaves, 0); with llaves = "sin" the bodies of
\* si, sino, mientras, para and hacer_mientras are written without braces.
\* ------------------------------------------------------------------------
DepthKinds ==
    {"bloque", "si", "sino", "mientras", "para", "hacer", "funcion", "clase",
     "catch", "finally", "catch_finally"}
Cuerpo(body, llaves) == IF llaves = "sin" THEN Sentencia(body[1]) ELSE Bloque(body)
Statement(kind, body, llaves) ==
    CASE kind = "bloque" -> Bloque(body)
      [] kind = "si" -> Si(Booleano(TRUE), Cuerpo(body, llaves), None)
      [] kind = "sino" -> Si(Booleano(FALSE), Cuerpo(<<Line("n")>>, llaves), Cuerpo(body, llaves))
      [] kind = "mientras" -> Mientras(Booleano(FALSE), Cuerpo(body, llaves))
      [] kind = "para" -> Para(None, Booleano(FALSE), None, Cuerpo(body, llaves))
      [] kind = "hacer" -> HacerMientras(Cuerpo(body, llaves), Booleano(FALSE))
      [] kind = "funcion" -> Funcion("f", <<<<"p", NoName>>>>, NoName, Bloque(body))
      [] kind = "clase" -> Clase("K", NoName, <<Metodo("m", <<>>, NoName, Bloque(body), FALSE)>>)
      [] kind = "catch" -> TryCatch(Bloque(body), "e", Bloque(<<Line("c")>>), None)
      [] kind = "finally" -> TryCatch(Bloque(body), NoName, None, Bloque(<<Line("f")>>))
      [] kind = "catch_finally" ->
            TryCatch(Bloque(body), "e", Bloque(<<Line("c")>>), Bloque(<<Line("f")>>))
DepthCode(outer, inner, llaves) ==
    <<Statement(outer, IF inner = "none" THEN <<Line("s")>>
                       ELSE <<Statement(inner, <<Line("s")>>, llaves)>>, llaves)>>
DepthProgs ==
    {Desc("depth", outer, inner, llaves, 0) :
        outer \in DepthKinds, inner \in DepthKinds \cup {"none"}, llaves \in {"llaves", "sin"}}

\* ------------------------------------------------------------------------
\* Programs: class hierarchies
\*
\*   clase N [extiende S] { [funcion m() { }] }
\*
\* Desc("hierarchy", N, S, method, 0), where method is "m" or NoName.  N may
\* be the name of a class that is declared already.
\* ------------------------------------------------------------------------
HierarchyNames == {"A", "B"}
MethodNames == {"m", "z"}
HierarchyCode(name, superclase, method) ==
    <<Clase(name, superclase,
            IF method = NoName THEN <<>>
            ELSE <<Metodo(method, <<>>, NoName, Bloque(<<>>), FALSE)>>)>>
HierarchyProgs ==
    {Desc("hierarchy", n, s, m, 0) :
        n \in HierarchyNames, s \in HierarchyNames \cup {NoName}, m \in {"m", NoName}}

Code(d) ==
    CASE d.fam = "try" -> InLoopInFunction(TryStatement(d.a, d.b, d.c))
      [] d.fam = "text" -> Programa(TextCode(d.a))
      [] d.fam = "div" -> Programa(DivCode(d.a, d.b, d.n))
      [] d.fam = "para" -> Programa(ParaCode(d.a, d.n))
      [] d.fam = "nest" -> Programa(<<Bloque(Nest(d.a, 1, d.b, d.n))>>)
      [] d.fam = "ret" -> Programa(RetornaCode(d.a, d.b, d.c, d.n))
      [] d.fam = "decl" -> Programa(DeclCode(d.a, d.b, d.c))
      [] d.fam = "importa" -> Programa(ImportCode(d.a, d.b, d.c))
      [] d.fam = "expr" -> Programa(ExprCode(d.b, d.a, d.c))
      [] d.fam = "clase" -> Programa(<<Clase(d.a, d.b, <<>>)>>)
      [] d.fam = "abort" -> Programa(AbortPrefix(d.a) \o AbortFailure(d.b))
      [] d.fam = "assign" -> Programa(AssignBody(d.a, 1, d.n, d.c = "known"))
      [] d.fam = "untyped" -> Programa(UntypedCode(d.a, d.b, d.c))
      [] d.fam = "caller" -> Programa(CallerProgramCode(d.a, d.b, d.c))
      [] d.fam = "member" -> Programa(MemberCode(d.a, d.b, d.c, d.n))
      [] d.fam = "compound" -> Programa(CompoundCode(d.a, d.b, d.c[1], d.c[2]))
      [] d.fam = "este" -> Programa(EsteCode(d.a, d.b))
      [] d.fam = "nuevo" -> Programa(NuevoCode(d.a, d.c[1], d.c[2]))
      [] d.fam = "depth" -> Programa(DepthCode(d.a, d.b, d.c))
      [] d.fam = "hierarchy" -> Programa(HierarchyCode(d.a, d.b, d.c))

\* evaluate(code) with the default optimize=True
EvaluateCatch == calls < MaxCalls /\ \E d \in CatchProgs : Evaluate(d, Code(d), TRUE)
EvaluateFinally == calls < MaxCalls /\ \E d \in FinallyProgs : Evaluate(d, Code(d), TRUE)
EvaluateControl == calls < MaxCalls /\ \E d \in ControlProgs : Evaluate(d, Code(d), TRUE)
EvaluateReplace == calls < MaxCalls /\ \E d \in ReplaceProgs : Evaluate(d, Code(d), TRUE)
EvaluateConst == calls < MaxCalls /\ \E d \in ConstProgs : Evaluate(d, Code(d), TRUE)
EvaluateCall == calls < MaxCalls /\ \E d \in CallProgs : Evaluate(d, Code(d), TRUE)
EvaluatePara == calls < MaxCalls /\ \E d \in ParaProgs : Evaluate(d, Code(d), TRUE)
\* evaluate(code, optimize) with either value of the flag
EvaluateDiv == calls < MaxCalls /\ \E d \in DivProgs, o \in BOOLEAN : Evaluate(d, Code(d), o)
\* the nested-loop programs are closed blocks, which leave nothing behind for
\* a later call: one call on a fresh instance
EvaluateNest == calls = 0 /\ \E d \in NestProgs : Evaluate(d, Code(d), TRUE)
\* each of these programs defines the function it calls: one call on a fresh
\* instance, with either value of the flag
EvaluateRetorna ==
    calls = 0 /\ \E d \in RetornaProgs, o \in BOOLEAN : Evaluate(d, Code(d), o)
\* each of these programs is one closed block or one function declaration:
\* one call on a fresh instance
EvaluateDecl == calls = 0 /\ \E d \in DeclProgs : Evaluate(d, Code(d), TRUE)
EvaluateImport == calls < MaxCalls /\ \E d \in ImportProgs : Evaluate(d, Code(d), TRUE)
\* an expression of literals reads and leaves nothing: one call on a fresh
\* instance, with either value of the flag
EvaluateExpr == calls = 0 /\ \E d \in ExprProgs, o \in BOOLEAN : Evaluate(d, Code(d), o)
\* a class is declared once: a second declaration would leave the instances
\* of the first one behind under the same name
EvaluateClase ==
    /\ calls < MaxCalls
    /\ \E d \in ClaseProgs : d.a \notin classes /\ Evaluate(d, Code(d), TRUE)
\* type_system.validate_assignment("x", v, expected) for a fresh instance v of
\* the declared class cls; `last` records the outcome and check_type's answer
ValidateAssignment ==
    \E cls \in classes, expected \in ClassNames :
        \E r \in {validate_assignment(PyInstance(cls), expected, DOMAIN class_hierarchy)} :
            /\ last' = [prog |-> Desc("validate", cls, expected, "", 0), optimize |-> FALSE,
                        k |-> r[1],
                        v |-> IF r[1] = "raise" THEN r[2]
                              ELSE PyBool(check_type(PyInstance(cls), expected,
                                                     DOMAIN class_hierarchy)),
                        pre |-> Current]
            /\ UNCHANGED <<scopes, functions, classes, modules, is_in_loop, is_in_function,
                           class_hierarchy, pscopes, out, calls,
                           class_objects, current_self, method_signatures, heap, query>>

\* one call evaluate(text) on a program given with its text
EvaluateText(prog, text, code) ==
    /\ calls' = calls + 1
    /\ \E r \in {evaluate_text(text, code, TRUE, Current, pscopes)} :
           /\ scopes' = r.st.scopes
           /\ functions' = r.st.functions
           /\ classes' = r.st.classes
           /\ modules' = r.st.modules
           /\ is_in_loop' = r.st.is_in_loop
           /\ is_in_function' = r.st.is_in_function
           /\ class_hierarchy' = r.st.class_hierarchy
           /\ class_objects' = r.st.class_objects
           /\ current_self' = r.st.current_self
           /\ method_signatures' = r.st.method_signatures
           /\ heap' = r.st.heap
           /\ query' = query
           /\ pscopes' = r.ps
           /\ out' = r.st.out
           /\ last' = [prog |-> prog, optimize |-> TRUE, k |-> r.k, v |-> r.v,
                       pre |-> Current]
EvaluateAbort == calls < MaxCalls /\ \E d \in AbortProgs : EvaluateText(d, AbortText(d), Code(d))
\* ZiskLexer().tokenize(text): the lexer keeps nothing between two calls, so
\* the call leaves the evaluator alone; `last` records the text and the
\* tokens or the error
Tokenize(prog) ==
    /\ \E r \in {tokenize(LexerText(prog))} :
           last' = [prog |-> prog, optimize |-> FALSE, k |-> r[1],
                    v |-> IF r[1] = "ok" THEN PyList(r[2]) ELSE r[2],
                    pre |-> Current]
    /\ UNCHANGED <<scopes, functions, classes, modules, is_in_loop, is_in_function,
                   class_hierarchy, pscopes, out, calls,
                   class_objects, current_self, method_signatures, heap, query>>
\* one text per behaviour: a second call would start from the same lexer
TokenizeComments == last.prog.fam = "none" /\ \E d \in CommentTexts : Tokenize(d)
TokenizeWords == last.prog.fam = "none" /\ \E d \in WordTexts : Tokenize(d)
\* the program shows x at the global level when an earlier call left x there
EvaluateAssign ==
    /\ calls < MaxCalls
    /\ \E d \in AssignProgs :
           Let([d EXCEPT !.c = IF "x" \in DOMAIN scopes[1] THEN "known" ELSE ""], LAMBDA p :
               Evaluate(p, Code(p), TRUE))
EvaluateUntyped == calls < MaxCalls /\ \E d \in UntypedProgs : Evaluate(d, Code(d), TRUE)
EvaluateCaller == calls < MaxCalls /\ \E d \in CallerProgs : Evaluate(d, Code(d), TRUE)
EvaluateMember == calls < MaxCalls /\ \E d \in MemberProgs : Evaluate(d, Code(d), TRUE)
\* each of these programs declares the target it assigns: one call on a
\* fresh instance
EvaluateCompound == calls = 0 /\ \E d \in CompoundProgs : Evaluate(d, Code(d), TRUE)
EvaluateEste == calls < MaxCalls /\ \E d \in EsteProgs : Evaluate(d, Code(d), TRUE)
EvaluateNuevo == calls < MaxCalls /\ \E d \in NuevoProgs : Evaluate(d, Code(d), TRUE)
\* the second call on an instance is one of the statements with a plain body
EvaluateDepth ==
    /\ calls < MaxCalls
    /\ \E d \in DepthProgs :
           /\ calls > 0 => (d.b = "none" /\ d.c = "llaves")
           /\ Evaluate(d, Code(d), TRUE)
\* one class declaration, of a new name or of a declared one, whose superclass
\* is declared, while no call of the Type System is running
EvaluateHierarchy ==
    /\ calls < MaxDecls
    /\ query = Idle
    /\ \E d \in HierarchyProgs :
           /\ d.b = NoName \/ d.b \in classes
           /\ Evaluate(d, Code(d), TRUE)

\* get_method_signature(class_name, method_name), up to its loop
CallGetMethodSignature ==
    /\ query = Idle
    /\ \E class_name \in HierarchyNames, method_name \in MethodNames :
           query' = IF <<class_name, method_name>> \in method_signatures
                    THEN [op |-> "get_method_signature", pc |-> "done",
                          method_name |-> method_name, current |-> class_name,
                          result |-> class_name, turns |-> 0]
                    ELSE [op |-> "get_method_signature", pc |-> "while",
                          method_name |-> method_name, current |-> class_name,
                          result |-> NoName, turns |-> 0]
    /\ UNCHANGED <<scopes, functions, classes, modules, is_in_loop, is_in_function,
                   class_hierarchy, pscopes, out, last, calls,
                   class_objects, current_self, method_signatures, heap>>

\* class_hierarchy.get(name): None for a name that is no key
HierarchyGet(name) ==
    IF name \in DOMAIN class_hierarchy THEN class_hierarchy[name] ELSE NoName

\* the turn of its loop a call is in, as the parity of the turns taken
Turn(q) == [q EXCEPT !.turns = 1 - @]

\* one turn of the loop `while current_cls_name:` of get_method_signature;
\* result is the class whose signature is returned, NoName for None
LoopGetMethodSignature ==
    /\ query.op = "get_method_signature"
    /\ query.pc = "while"
    /\ query' = IF query.current = NoName THEN [Turn(query) EXCEPT !.pc = "done"]
                ELSE Let(HierarchyGet(query.current), LAMBDA superclass_name :
                     IF superclass_name # NoName
                     THEN IF <<superclass_name, query.method_name>> \in method_signatures
                          THEN [Turn(query) EXCEPT !.pc = "done", !.result = superclass_name]
                          ELSE [Turn(query) EXCEPT !.current = superclass_name]
                     ELSE [Turn(query) EXCEPT !.pc = "done"])
    /\ UNCHANGED <<scopes, functions, classes, modules, is_in_loop, is_in_function,
                   class_hierarchy, pscopes, out, last, calls,
                   class_objects, current_self, method_signatures, heap>>

\* is_subclass_or_same(child_class_name, parent_class_name), up to its loop
CallIsSubclassOrSame ==
    /\ query = Idle
    /\ \E child_class_name \in HierarchyNames, parent_class_name \in HierarchyNames :
           query' = IF child_class_name = parent_class_name
                    THEN [op |-> "is_subclass_or_same", pc |-> "done",
                          parent_class_name |-> parent_class_name,
                          current |-> child_class_name, visited |-> {}, result |-> TRUE,
                          turns |-> 0]
                    ELSE [op |-> "is_subclass_or_same", pc |-> "while",
                          parent_class_name |-> parent_class_name,
                          current |-> child_class_name, visited |-> {child_class_name},
                          result |-> FALSE, turns |-> 0]
    /\ UNCHANGED <<scopes, functions, classes, modules, is_in_loop, is_in_function,
                   class_hierarchy, pscopes, out, last, calls,
                   class_objects, current_self, method_signatures, heap>>

\* one turn of the loop `while current in self.class_hierarchy:`
LoopIsSubclassOrSame ==
    /\ query.op = "is_subclass_or_same"
    /\ query.pc = "while"
    /\ query' = IF query.current \notin DOMAIN class_hierarchy
                THEN [Turn(query) EXCEPT !.pc = "done"]
                ELSE Let(class_hierarchy[query.current], LAMBDA superclass :
                     IF superclass = query.parent_class_name
                     THEN [Turn(query) EXCEPT !.pc = "done", !.result = TRUE]
                     ELSE IF superclass = NoName \/ superclass \in query.visited
                     THEN [Turn(query) EXCEPT !.pc = "done"]
                     ELSE [Turn(query) EXCEPT !.current = superclass,
                                        !.visited = @ \cup {superclass}])
    /\ UNCHANGED <<scopes, functions, classes, modules, is_in_loop, is_in_function,
                   class_hierarchy, pscopes, out, last, calls,
                   class_objects, current_self, method_signatures, heap>>

NextHierarchy ==
    \/ EvaluateHierarchy
    \/ CallGetMethodSignature
    \/ LoopGetMethodSignature
    \/ CallIsSubclassOrSame
    \/ LoopIsSubclassOrSame

Next ==
    \/ EvaluateCatch
    \/ EvaluateFinally
    \/ EvaluateControl
    \/ EvaluateReplace
    \/ EvaluateConst
    \/ EvaluateCall
    \/ EvaluateDiv
    \/ EvaluatePara
    \/ EvaluateNest
    \/ EvaluateClase
    \/ EvaluateExpr
    \/ EvaluateImport
    \/ EvaluateDecl
    \/ EvaluateRetorna
    \/ ValidateAssignment
    \/ EvaluateAbort
    \/ TokenizeComments
    \/ TokenizeWords
    \/ EvaluateAssign
    \/ EvaluateUntyped
    \/ EvaluateCaller
    \/ EvaluateMember
    \/ EvaluateCompound
    \/ EvaluateEste
    \/ EvaluateNuevo
    \/ EvaluateDepth
    \/ EvaluateHierarchy
    \/ CallGetMethodSignature
    \/ LoopGetMethodSignature
    \/ CallIsSubclassOrSame
    \/ LoopIsSubclassOrSame

Spec == Init /\ [][Next]_vars
SpecCatch == Init /\ [][EvaluateCatch]_vars
SpecFinally == Init /\ [][EvaluateFinally]_vars
SpecControl == Init /\ [][EvaluateControl]_vars
SpecReplace == Init /\ [][EvaluateReplace]_vars
SpecConst == Init /\ [][EvaluateConst]_vars
SpecCall == Init /\ [][EvaluateCall]_vars
SpecNest == Init /\ [][EvaluateNest]_vars
SpecRetorna == Init /\ [][EvaluateRetorna]_vars
SpecDecl == Init /\ [][EvaluateDecl]_vars
SpecImport == Init /\ [][EvaluateImport]_vars
SpecExpr == Init /\ [][EvaluateExpr]_vars
SpecClase == Init /\ [][EvaluateClase \/ ValidateAssignment]_vars
SpecComments == Init /\ [][TokenizeComments]_vars
SpecWords == Init /\ [][TokenizeWords]_vars
SpecAbort == Init /\ [][EvaluateAbort]_vars
SpecAssign == Init /\ [][EvaluateAssign]_vars
SpecUntyped == Init /\ [][EvaluateUntyped]_vars
SpecCaller == Init /\ [][EvaluateCaller]_vars
SpecMember == Init /\ [][EvaluateMember]_vars
SpecCompound == Init /\ [][EvaluateCompound]_vars
SpecEste == Init /\ [][EvaluateEste]_vars
SpecNuevo == Init /\ [][EvaluateNuevo]_vars
SpecDepth == Init /\ [][EvaluateDepth]_vars
\* a call of the Type System that has begun goes on running: the interpreter
\* is one thread, which takes the next turn of the loop it is in
SpecHierarchy ==
    /\ Init /\ [][NextHierarchy]_vars
    /\ WF_vars(LoopGetMethodSignature) /\ WF_vars(LoopIsSubclassOrSame)
SpecArith == Init /\ [][EvaluateDiv \/ EvaluatePara]_vars

\* ------------------------------------------------------------------------
\* Properties
\* ------------------------------------------------------------------------
\* the line that mostrar("s") prints
Mark(s) == <<PyStr(s)>>
Count(lines, line) == Cardinality({i \in DOMAIN lines : lines[i] = line})
\* the marks of one pass through try and finally, the finally block present or not
Pass(f) == IF f = "none" THEN <<Mark("t")>> ELSE <<Mark("t"), Mark("f")>>
IsTry(ts, cs, fs) == last.prog \in TryProgs(ts, cs, fs)

\* C1: when the try block of a try statement with a catch clause raises a
\* language error, the catch block is executed and the statement completes:
\* both passes of the loop print t, c, (f,) a, then the function prints b and
\* returns 0.
C1_CatchHandlesError ==
    IsTry({"zerr", "terr"}, {"ok"}, {"none", "ok"}) =>
        LET pass == <<Mark("t"), Mark("c")>>
                    \o (IF last.prog.c = "ok" THEN <<Mark("f")>> ELSE <<>>)
                    \o <<Mark("a")>>
        IN  /\ last.k = "ok"
            /\ last.v = PyInt(0)
            /\ out = pass \o pass \o <<Mark("b")>>

\* C2: a try statement with a finally block runs the finally block exactly
\* once per execution of the statement, however the try and catch part ends:
\* the finally mark f is printed as often as the try mark t, at least once.
C2_FinallyExactlyOnce ==
    last.prog \in FinallyProgs =>
        /\ Count(out, Mark("t")) >= 1
        /\ Count(out, Mark("f")) = Count(out, Mark("t"))

\* an error leaves a try block that has no handler: finally ran once and the
\* error went on
C2_Witness ==
    /\ last.prog = Desc("try", "zerr", "none", "ok", 0)
    /\ last.k = "raise"
    /\ last.v.cls = "ZiskRuntimeError"
    /\ out = <<Mark("t"), Mark("f")>>

\* C3: a return, break or continue that leaves the try block is not handled
\* by the catch clause; the finally block, if any, runs first and then the
\* same event goes on: break ends the loop, continue starts the next pass,
\* return ends the call with the value it carries (7).
C3_ControlBypassesCatch ==
    IsTry({"break", "continue", "return"}, {"none", "ok"}, {"none", "ok"}) =>
        /\ Count(out, Mark("c")) = 0
        /\ last.k = "ok"
        /\ CASE last.prog.a = "break" ->
                    out = Pass(last.prog.c) \o <<Mark("b")>> /\ last.v = PyInt(0)
             [] last.prog.a = "continue" ->
                    out = Pass(last.prog.c) \o Pass(last.prog.c) \o <<Mark("b")>>
                    /\ last.v = PyInt(0)
             [] last.prog.a = "return" ->
                    out = Pass(last.prog.c) /\ last.v = PyInt(7)

\* a return left a try block that has both a catch and a finally clause
C3_Witness ==
    /\ last.prog = Desc("try", "return", "ok", "ok", 0)
    /\ last.k = "ok"
    /\ last.v = PyInt(7)
    /\ out = <<Mark("t"), Mark("f")>>

\* C4: when the finally block itself raises or transfers control, the
\* outcome of the try statement is the outcome of the finally block, whatever
\* was propagating out of the try and catch part.
C4_FinallyOutcomeReplaces ==
    last.prog \in ReplaceProgs =>
        CASE last.prog.c = "merr" ->
                /\ last.k = "raise"
                /\ last.v = ZiskRuntimeError("Modulo por cero")
                /\ out = <<Mark("t"), Mark("f")>>
          [] last.prog.c = "break" ->
                /\ last.k = "ok" /\ last.v = PyInt(0)
                /\ out = <<Mark("t"), Mark("f"), Mark("b")>>
          [] last.prog.c = "continue" ->
                /\ last.k = "ok" /\ last.v = PyInt(0)
                /\ out = <<Mark("t"), Mark("f"), Mark("t"), Mark("f"), Mark("b")>>
          [] last.prog.c = "return9" ->
                /\ last.k = "ok" /\ last.v = PyInt(9)
                /\ out = <<Mark("t"), Mark("f")>>

\* a division by zero was propagating and the finally block returned 9
C4_Witness ==
    /\ last.prog = Desc("try", "zerr", "none", "return9", 0)
    /\ last.k = "ok"
    /\ last.v = PyInt(9)

\* C5: a binding made by `const` in the global frame keeps its value and its
\* const flag through every later call, every statement that assigns to the
\* constant K raises an error, and so does an assignment to K inside the
\* block that declared it.
C5_ConstBindingImmutable ==
    /\ \A name \in DOMAIN last.pre.scopes[1] :
            last.pre.scopes[1][name].is_const =>
                /\ name \in DOMAIN scopes[1]
                /\ scopes[1][name] = last.pre.scopes[1][name]
    /\ ( /\ last.prog \in AssignConstProgs
         /\ "K" \in DOMAIN last.pre.scopes[1]
         /\ last.pre.scopes[1]["K"].is_const ) => last.k = "raise"
    /\ last.prog \in BlockConstProgs => last.k = "raise"

\* C6: a call of a user-defined function leaves the runtime scope stack as
\* deep as it found it, whether the body completes, returns or raises, or
\* the call fails while its arguments are bound.
C6_CallKeepsScopeDepth ==
    last.prog \in UserCallProgs => Len(scopes) = Len(last.pre.scopes)

\* C7: a block leaves the runtime scope stack as deep as it found it, never
\* pops the global frame, and the name y it declares is not resolvable after
\* it.
C7_BlockPopsItsScope ==
    last.prog \in BlockProgs =>
        /\ Len(scopes) = Len(last.pre.scopes)
        /\ Len(scopes) >= 1
        /\ FindScope(last.pre.scopes, "y") = 0 => FindScope(scopes, "y") = 0

\* C8: between two calls of evaluate no loop and no function call is active,
\* so both nesting counters are 0, and a `retorna`, `break` or `continua` at
\* top level raises the language's RuntimeError, in every reachable state.
C8_ControlOutsideRaises ==
    /\ is_in_loop = 0
    /\ is_in_function = 0
    /\ last.prog \in {Text("retorna 5;"), Text("break;"), Text("continua;")} =>
            /\ last.k = "raise"
            /\ last.v.cls \in ZiskRuntimeErrorClasses

\* C9: a division or a modulo whose divisor evaluates to zero raises the
\* language's RuntimeError, the divisor being a literal or computed, the
\* optimizer pre-pass enabled or not; it yields no value and no host error.
C9_DivisionByZeroRaises ==
    (last.prog \in DivProgs /\ last.prog.b # "2") =>
        /\ last.k = "raise"
        /\ last.v.cls \in ZiskRuntimeErrorClasses
        /\ out = <<>>

\* C10: the counting loop `para (var i = 0; i < N; i += 1) { mostrar(i); }`
\* prints 0, 1, ..., N-1 in this order and completes normally, and the name
\* i is not resolvable after it.
C10_CountingLoop ==
    (last.prog \in ParaProgs /\ FindScope(last.pre.scopes, "i") = 0) =>
        /\ last.k = "ok"
        /\ out = [j \in 1..last.prog.n |-> <<PyInt(j - 1)>>]
        /\ FindScope(scopes, "i") = 0

\* what one execution of the loop of a level prints when `break` ends only
\* the innermost loop and `continua` only skips the rest of one iteration of
\* it: the innermost loop prints 1 .. k-1 (break) or 1 .. Iterations without
\* k (continua); every other loop runs its inner loop and prints its own
\* variable, Iterations times
RECURSIVE LoopOutput(_, _, _, _, _)
LoopOutput(depth, level, event, k, i) ==
    IF i > Iterations \/ (level = depth /\ event = "break" /\ i >= k) THEN <<>>
    ELSE (IF level = depth
          THEN (IF i = k THEN <<>> ELSE << <<PyStr(LoopVar(level)), PyInt(i)>> >>)
          ELSE LoopOutput(depth, level + 1, event, k, 1)
               \o << <<PyStr(LoopVar(level)), PyInt(i)>> >>)
         \o LoopOutput(depth, level, event, k, i + 1)
InnermostOnly(depth, event, k) == LoopOutput(depth, 1, event, k, 1)

\* C11: a `break` in the body of the innermost of two or three nested loops,
\* of any of the three kinds, ends that loop only: every enclosing loop goes
\* on with the rest of its body and with its further iterations, the program
\* completes, and the loop-nesting counter is back at 0.
C11_BreakEndsInnermostOnly ==
    (last.prog \in NestProgs /\ last.prog.b = "break") =>
        /\ last.k = "ok"
        /\ out = InnermostOnly(Len(last.prog.a), "break", last.prog.n)
        /\ is_in_loop = 0

\* a break in the first iteration of a `para` loop inside a `hacer_mientras`
\* loop inside a `mientras` loop: the two outer loops ran all their iterations
C11_Witness ==
    /\ last.prog = Desc("nest", <<"mientras", "hacer", "para">>, "break", "", 1)
    /\ last.k = "ok"
    /\ Len(out) = Iterations + Iterations * Iterations

\* C12: a `continua` in the body of the innermost loop skips the rest of
\* that iteration only; the loop goes on with its condition (mientras,
\* hacer_mientras) or with its update clause, once, and its condition (para),
\* so the later iterations print their values and the loop ends after
\* iteration number Iterations.
C12_ContinueSkipsIteration ==
    (last.prog \in NestProgs /\ last.prog.b = "continue") =>
        /\ last.k = "ok"
        /\ out = InnermostOnly(Len(last.prog.a), "continue", last.prog.n)
        /\ is_in_loop = 0

\* a continua in the first iteration of a `para` loop inside a `mientras`
\* loop: the update clause ran and iteration 2 printed b
C12_Witness ==
    /\ last.prog = Desc("nest", <<"mientras", "para">>, "continue", "", 1)
    /\ last.k = "ok"
    /\ out[1] = <<PyStr("b"), PyInt(2)>>

\* ------------------------------------------------------------------------
\* C13: class types follow the class hierarchy
\* ------------------------------------------------------------------------
\* child is parent or reaches it along the `extiende` links of the hierarchy
RECURSIVE SubclassOrSame(_, _, _)
SubclassOrSame(child, parent, hierarchy) ==
    \/ child = parent
    \/ /\ child \in DOMAIN hierarchy
       /\ hierarchy[child] # NoName
       /\ SubclassOrSame(hierarchy[child], parent, hierarchy)

\* C13: validating an instance of a declared class against a class name passes
\* exactly when the class of the instance is that class or a direct or
\* transitive subclass of it, and raises a type error otherwise.
C13_SubclassInstancePasses ==
    last.prog.fam = "validate" =>
        (last.k = "ok" <=> SubclassOrSame(last.prog.a, last.prog.b, class_hierarchy))

\* ------------------------------------------------------------------------
\* C14: the result of a call of a user-defined function
\* ------------------------------------------------------------------------
\* the values of the `retorna` statements the last call executed, in order
Executed == SelectSeq(out, LAMBDA line : line[1].py = "int")
UnderFinallyRetorna(d) == \E i \in DOMAIN d.a : d.a[i] = "finally9"

Redeclared ==
    last.k = "raise" /\ last.v.cls = "ZiskError" /\ last.v.msg = "ya declarada en este ambito"

\* C15: the parser refuses the second declaration of a name exactly when the
\* name was declared before (by var, const or as a parameter) in the same
\* lexical block, whatever statement stands between the two; a second
\* declaration in a nested block is accepted, and so is one that follows a
\* closed nested block holding the first.
C15_RedeclarationSameBlock ==
    last.prog \in DeclProgs =>
        (Redeclared <=> (last.prog.a \in {"var", "const", "param"} /\ last.prog.c[2] = "same"))

\* ------------------------------------------------------------------------
\* C16, C17: imports
\* ------------------------------------------------------------------------
\* the name an import statement binds
ImportName(d) == IF d.b # NoName THEN d.b ELSE PathName(d.a)
\* what the top-level code of the module at a path prints
ModuleMark(path) == IF path = "modk" THEN Mark("k") ELSE Mark("m")

\* C16: an import of a module whose file can be read and whose top-level
\* code evaluates without error completes without raising; afterwards the
\* alias (or the name derived from the path) is bound in the importer's
\* current scope to the module's own evaluator, which has a scope stack, a
\* function table and a class table of its own and shares the Type System.
C16_ImportBindsModule ==
    (last.prog \in OneImportProgs /\ last.prog.a \in GoodPaths) =>
        LET name == ImportName(last.prog) IN
        /\ last.k = "ok"
        /\ name \in DOMAIN scopes[Len(scopes)]
        /\ scopes[Len(scopes)][name].value = PyModule(name)
        /\ name \in DOMAIN modules
        /\ DOMAIN modules[name] = {"scopes", "functions", "classes", "modules"}
        /\ modules[name].classes \subseteq DOMAIN class_hierarchy

\* C17: a program that imports one path under two aliases executes the
\* module's top-level code twice, once per import statement: what the module
\* prints is printed twice.
C17_TwoAliasesRunTwice ==
    last.prog \in TwoImportProgs => Count(out, ModuleMark(last.prog.a)) = 2

\* ------------------------------------------------------------------------
\* C18: constant folding keeps the value of arithmetic on literals
\* ------------------------------------------------------------------------
\* the same call with the other value of the optimize flag
OtherFlag == evaluate(Code(last.prog), ~last.optimize, last.pre, <<EmptyFrame>>)

TypesAndValues(tokens) == [i \in DOMAIN tokens |-> <<tokens[i].tipo, tokens[i].valor>>]

\* the position in text of the first character of line linea (lines are
\* counted from 1 and end with a newline), from position p of line n on
RECURSIVE LineStart(_, _, _, _)
LineStart(text, linea, p, n) ==
    IF n = linea \/ p > Len(text) THEN p
    ELSE LineStart(text, linea, p + 1, IF text[p] = "\n" THEN n + 1 ELSE n)

\* the token's value stands in the text at the token's line and column
StandsAt(text, token) ==
    Let(LineStart(text, token.linea, 1, 1) + token.col - 1, LAMBDA p :
    /\ token.col >= 1
    /\ p + Len(token.valor) - 1 <= Len(text)
    /\ SubSeq(text, p, p + Len(token.valor) - 1) = token.valor)

\* C19: tokenize emits no token for whitespace or for a comment: the tokens
\* of a text are, by type and value, the tokens of the text with every
\* comment removed, and every token carries the line and the column (both
\* counted from 1) where its value stands in the text, also after a comment
\* of several lines
C19_CommentsYieldNoTokens ==
    (last.prog.fam = "lexer" /\ last.prog.b = "comment") =>
        /\ last.k = "ok"
        /\ tokenize(Pieces(last.prog.a, FALSE))[1] = "ok"
        /\ TypesAndValues(last.v.items)
             = TypesAndValues(tokenize(Pieces(last.prog.a, FALSE))[2])
        /\ \A i \in DOMAIN last.v.items : StandsAt(LexerText(last.prog), last.v.items[i])

\* C20: tokenize is maximal-munch on words: a text that is one run of
\* name characters beginning with a letter or an underscore is exactly one
\* token, a keyword or type-name token only if the whole text is that
\* keyword and an IDENTIFICADOR token otherwise; a name that begins with a
\* keyword is not split
C20_WordIsOneToken ==
    (last.prog.fam = "lexer" /\ last.prog.b = "word") =>
        /\ last.k = "ok"
        /\ Len(last.v.items) = 1
        /\ last.v.items[1].valor = LexerText(last.prog)
        /\ last.v.items[1].tipo = "IDENTIFICADOR" <=> LexerText(last.prog) \notin Keywords

\* C21: a call of evaluate that fails with a lexer error, a parser error or
\* a type error has executed no part of its program: the scope stack, the
\* function, class and module tables are those from before the call and
\* nothing was printed
C21_FailedCallExecutesNothing ==
    (last.prog.fam = "abort" /\ last.k = "raise" /\ last.v.cls \in {"ZiskError", "ZiskTypeError"}) =>
        /\ scopes = last.pre.scopes
        /\ functions = last.pre.functions
        /\ classes = last.pre.classes
        /\ modules = last.pre.modules
        /\ out = <<>>

\* the value that x holds at a level after the assignment of V: V when the
\* innermost declaration is at this level or further out, else what the
\* innermost declaration at or outside this level gave it
Innermost(declared, level) ==
    IF \E i \in 1..level : declared[i] = "var"
    THEN CHOOSE i \in 1..level : declared[i] = "var" /\ \A j \in (i + 1)..level : declared[j] # "var"
    ELSE 0
ShownAt(d, level, before) ==
    IF Innermost(d.a, AssignLevels) <= level THEN PyInt(d.n)
    ELSE IF Innermost(d.a, level) = 0 THEN before
    ELSE PyInt(Innermost(d.a, level))
AssignParsed == ~(last.k = "raise" /\ last.v.cls = "ZiskError")

\* C26: `x = v` writes the innermost frame that holds x and leaves the outer
\* bindings of x alone; when no frame holds x it raises a runtime error of the
\* language and binds nothing.
C26_AssignWritesInnermost ==
    (last.prog.fam = "assign" /\ AssignParsed) =>
        IF Resolvable(last.prog.a, AssignLevels, last.prog.c = "known")
        THEN /\ last.k = "ok"
             /\ out = [j \in 1..Len(out) |-> <<ShownAt(last.prog, AssignLevels + 1 - j,
                           IF last.prog.c = "known" THEN last.pre.scopes[1]["x"].value ELSE PyNone)>>]
             /\ Len(out) = Cardinality({l \in 1..AssignLevels :
                                           Resolvable(last.prog.a, l, last.prog.c = "known")})
        ELSE /\ last.k = "raise"
             /\ last.v.cls \in ZiskRuntimeErrorClasses
             /\ "x" \notin DOMAIN scopes[1]

\* the value of a literal
ValueOf(kind) ==
    CASE kind = "entero" -> PyInt(5)
      [] kind = "texto" -> PyStr("s")
      [] kind = "booleano" -> PyBool(TRUE)
      [] kind = "nulo" -> PyNone
UntypedParsed == ~(last.k = "raise" /\ last.v.cls = "ZiskError")

\* C27: a variable or a parameter declared without annotation has no declared
\* type: whatever value it got first, an assignment of a value of any type
\* succeeds, and the name then holds that value.
C27_UntypedTakesAnyValue ==
    (last.prog.fam = "untyped" /\ UntypedParsed) =>
        /\ last.k = "ok"
        /\ out = <<<<ValueOf(last.prog.c)>>>>

CallerParsed == ~(last.k = "raise" /\ last.v.cls = "ZiskError")
\* the global y that the function g can see, if there is one
GlobalBefore ==
    IF last.prog.b = "global" THEN <<PyInt(1)>>
    ELSE IF "y" \in DOMAIN last.pre.scopes[1] THEN <<last.pre.scopes[1]["y"].value>>
    ELSE <<>>

\* C25: a function body sees its own parameters and locals and the global
\* frame only: the y that g reads or assigns is the global y, never the local
\* y of its caller f, which still holds 7 after the call; without a global y
\* the use of y in g fails.
C25_CallerLocalsHidden ==
    (last.prog.fam = "caller" /\ CallerParsed) =>
        IF GlobalBefore # <<>>
        THEN /\ last.k = "ok"
             /\ out = IF last.prog.a = "read" THEN <<GlobalBefore, <<PyInt(7)>>>>
                      ELSE <<<<PyInt(7)>>>>
             /\ scopes[1]["y"].value = IF last.prog.a = "read" THEN GlobalBefore[1] ELSE PyInt(8)
        ELSE /\ last.k = "raise"
             /\ out = <<>>

MemberParsed == ~(last.k = "raise" /\ last.v.cls = "ZiskError")

\* C29: once the assignment o.f = v has completed, reading o.f gives v, for
\* a dictionary and for an instance of a class, from outside and through
\* `este` inside the methods of the instance.
C29_MemberReadsWhatWasWritten ==
    (last.prog.fam = "member" /\ MemberParsed) =>
        /\ last.k = "ok"
        /\ out = <<<<PyInt(last.prog.n)>>>>

\* the value the target of the compound assignment holds now
TargetValue(target) ==
    CASE target = "variable" -> scopes[1]["x"].value
      [] target = "elemento" -> heap[scopes[1]["l"].value.at].items[2]
      [] OTHER -> heap[scopes[1]["o"].value.at].dict["a"]
\* the operator of `op=`
OperatorOf(op) ==
    CASE op = "+=" -> "+" [] op = "-=" -> "-" [] op = "*=" -> "*" [] op = "/=" -> "/"
      [] op = "%=" -> "%"

\* C22: after `t op= r` on a declared variable, a list element in range or a
\* member of a dictionary that holds c, the target holds c op r and the
\* statement evaluates to that value; `/=` and `%=` with r = 0 raise a
\* runtime error of the language and leave the target at c.
C22_CompoundAssignment ==
    last.prog.fam = "compound" =>
        IF last.prog.b \in {"/=", "%="} /\ last.prog.c[2] = 0
        THEN /\ last.k = "raise"
             /\ last.v.cls \in ZiskRuntimeErrorClasses
             /\ TargetValue(last.prog.a) = PyInt(last.prog.c[1])
        ELSE /\ last.k = "ok"
             /\ last.v = BinaryOp(OperatorOf(last.prog.b), PyInt(last.prog.c[1]),
                                  PyInt(last.prog.c[2]))[2]
             /\ TargetValue(last.prog.a) = last.v

\* C28: in the body of an instance method called on R, `este` is R, also
\* after a method call made inside the body has returned; in the body of a
\* static method `este` is undefined, also when an instance method called it.
C28_EsteIsTheReceiver ==
    last.prog.fam = "este" =>
        IF last.prog.a \in EsteInstanceBodies
        THEN /\ last.k = "ok"
             /\ out = <<<<PyBool(TRUE)>>>>
        ELSE /\ last.k = "raise"
             /\ last.v.cls \in ZiskRuntimeErrorClasses
             /\ out = <<>>

\* C23: `nuevo C(args)` makes an instance, gives its fields their defaults in
\* the order of declaration and then, when the class has a method
\* `constructor`, with instance fields or without, calls it once on the new
\* instance: the constructor prints c and False, then the program prints
\* the fields.
C23_NuevoRunsConstructorOnce ==
    last.prog.fam = "nuevo" =>
        /\ last.k = "ok"
        /\ out = (IF last.prog.a = "constructor"
                  THEN <<Mark("c"), <<PyBool(FALSE)>>>> ELSE <<>>)
                 \o [i \in 1..last.prog.c[1] |-> <<PyInt(i)>>]

\* ------------------------------------------------------------------------
\* C24: the depth of the parser's scopes
\* ------------------------------------------------------------------------
\* C24: when the parser has parsed a statement (a block, si with or without
\* sino, a loop, a function, a class with a method, try with catch and/or
\* finally, a body without braces), its scope stack is as deep as it was
\* before the statement.
C24_ParserScopesBalanced ==
    [][(last'.prog.fam = "depth" /\ parse(Code(last'.prog), pscopes).k = "ok")
           => Len(pscopes') = Len(pscopes)]_vars

\* ------------------------------------------------------------------------
\* C30: the walks along the superclass chain
\* ------------------------------------------------------------------------
\* C30: in every state of the Type System that class declarations lead to,
\* declarations of a declared name with another superclass among them, a call
\* of is_subclass_or_same or of get_method_signature that has begun returns.
C30_ChainWalksReturn == (query.pc = "while") ~> (query.pc = "done")

====
